---- MODULE Spec2Model ----
(***************************************************************************)
(* A model of src/conf/domain_conf.c of libvirt: the domain definition     *)
(* parser, the formatter, the ABI stability checker and the registry of    *)
(* domain objects.                                                         *)
(*                                                                         *)
(* Conventions.                                                            *)
(*   - An XML document is a record; an optional attribute or element is a  *)
(*     sequence, <<>> when absent and <<v>> when present; a repeated       *)
(*     element is the sequence of its occurrences in document order.       *)
(*   - A C string pointer is a string, the null pointer being NULL.        *)
(*   - A C array with its count is a sequence.                             *)
(*   - An enum value is its integer; the VIR_ENUM_IMPL tables are the      *)
(*     sequences of their names.                                           *)
(*   - Numeric text of the document is an integer; the <memory> elements   *)
(*     carry no unit attribute, so that their value is in KiB.             *)
(***************************************************************************)
EXTENDS Integers, Sequences, FiniteSets, TLC

VARIABLES
    doc,        \* the document handed to the parser
    doc2,       \* a second document (the other side of an ABI comparison)
    flags,      \* the parse flags
    xmlopt,     \* the driver's callbacks, and the capabilities
    res,        \* result of parsing doc : [def, err, calls]
    res2,       \* result of parsing doc2
    copy,       \* result of virDomainDefCopy of res.def
    formatted,  \* result of virDomainDefFormat of res.def under flags
    reparsed,   \* result of parsing the formatted document under flags
    abi,        \* outcome of the last virDomainDefCheckABIStability
    abiArgs,    \* the arguments of that call
    abiBack,    \* outcome of the call with the same arguments the other way round
    synth,      \* the first definition after virDomainDefAddImplicitControllers ran on it again
    ppc,        \* phase of the parser scenario
    objs,       \* registry: the hash table  uuid -> object
    domains,    \* the domain objects : [def, newDef, refs]
    lockOwner,  \* owner of every lock (of the registry and of the objects)
    tpc,        \* per thread : position in the operation it runs
    tloc,       \* per thread : local variables of that operation
    hist,       \* what the last virDomainObjAssignDef did
    nops,       \* number of registry operations started so far
    ddef,       \* a definition a driver holds and works on
    dop,        \* the last operation on it, with what it did and returned
    dobj        \* a domain object a driver holds : [def, newDef, persistent, ndefs]

vars == <<doc, doc2, flags, xmlopt, res, res2, copy, formatted, reparsed, abi, abiArgs,
          abiBack, synth, ppc,
          objs, domains, lockOwner, tpc, tloc, hist, nops,
          ddef, dop, dobj>>

parseVars ==
    <<doc, doc2, flags, xmlopt, res, res2, copy, formatted, reparsed, abi, abiArgs,
      abiBack, synth, ppc>>

registryVars == <<objs, domains, lockOwner, tpc, tloc, hist, nops>>

deviceVars == <<ddef, dop, dobj>>

NULL == "NULL"

NoErr == ""

(***************************************************************************)
(* Generic helpers                                                         *)
(***************************************************************************)
VIR_DIV_UP(value, size) == (value + size - 1) \div size

Range(s) == {s[i] : i \in 1..Len(s)}

SeqInsertAt(s, pos, e) == SubSeq(s, 1, pos - 1) \o <<e>> \o SubSeq(s, pos, Len(s))

SeqSwap(s, i, j) == [k \in 1..Len(s) |-> IF k = i THEN s[j] ELSE IF k = j THEN s[i] ELSE s[k]]

TypeFromString(table, s) ==
    IF \E i \in 1..Len(table) : table[i] = s
    THEN (CHOOSE i \in 1..Len(table) : table[i] = s) - 1
    ELSE -1

TypeToString(table, v) ==
    IF v >= 0 /\ v < Len(table) THEN table[v + 1] ELSE NULL

(***************************************************************************)
(* Enumerations                                                            *)
(***************************************************************************)
virDomainVirt ==
    <<"qemu", "kqemu", "kvm", "xen", "lxc", "uml", "openvz", "test",
      "vmware", "hyperv", "vbox", "phyp", "parallels">>

virDomainBoot == <<"fd", "cdrom", "hd", "network">>

virDomainDisk == <<"block", "file", "dir", "network", "volume">>

virDomainDiskDevice == <<"disk", "cdrom", "floppy", "lun">>

virDomainStartupPolicy == <<"default", "mandatory", "requisite", "optional">>

virDomainHostdevMode == <<"subsystem", "capabilities">>

virDomainHostdevSubsys == <<"usb", "pci">>

virDomainHostdevCaps == <<"storage", "misc", "net">>

virDomainDiskBus == <<"ide", "fdc", "scsi", "virtio", "xen", "usb", "uml", "sata">>

virDomainController == <<"ide", "fdc", "scsi", "sata", "virtio-serial", "ccid", "usb">>

virDomainControllerModelSCSI ==
    <<"auto", "buslogic", "lsilogic", "lsisas1068", "vmpvscsi", "ibmvscsi",
      "virtio-scsi", "lsisas1078">>

virDomainControllerModelUSB ==
    <<"piix3-uhci", "piix4-uhci", "ehci", "ich9-ehci1", "ich9-uhci1",
      "ich9-uhci2", "ich9-uhci3", "vt82c686b-uhci", "pci-ohci", "nec-xhci",
      "none">>

virDomainVideo == <<"vga", "cirrus", "vmvga", "xen", "vbox", "qxl">>

virDomainInput == <<"mouse", "tablet">>

virDomainChrChannelTarget == <<"none", "guestfwd", "virtio">>

virDomainChr ==
    <<"null", "vc", "pty", "dev", "file", "pipe", "stdio", "udp", "tcp", "unix",
      "spicevmc">>

virDomainSmartcard == <<"host", "host-certificates", "passthrough">>

virDomainChrConsoleTarget ==
    <<"none", "serial", "xen", "uml", "virtio", "lxc", "openvz", "sclp", "sclplm">>

VIR_DOMAIN_CHR_CONSOLE_TARGET_TYPE_NONE == TypeFromString(virDomainChrConsoleTarget, "none")

VIR_DOMAIN_CHR_CONSOLE_TARGET_TYPE_SERIAL == TypeFromString(virDomainChrConsoleTarget, "serial")

VIR_DOMAIN_CHR_CHANNEL_TARGET_TYPE_GUESTFWD == TypeFromString(virDomainChrChannelTarget, "guestfwd")

VIR_DOMAIN_CHR_CHANNEL_TARGET_TYPE_VIRTIO == TypeFromString(virDomainChrChannelTarget, "virtio")

VIR_DOMAIN_CHR_TYPE_PTY == TypeFromString(virDomainChr, "pty")

VIR_DOMAIN_CHR_TYPE_SPICEVMC == TypeFromString(virDomainChr, "spicevmc")

VIR_DOMAIN_SMARTCARD_TYPE_HOST == TypeFromString(virDomainSmartcard, "host")

VIR_DOMAIN_SMARTCARD_TYPE_HOST_CERTIFICATES == TypeFromString(virDomainSmartcard, "host-certificates")

VIR_DOMAIN_SMARTCARD_NUM_CERTIFICATES == 3

virDomainSeclabel == <<"default", "none", "dynamic", "static">>

VIR_DOMAIN_SECLABEL_DEFAULT == TypeFromString(virDomainSeclabel, "default")

VIR_DOMAIN_SECLABEL_NONE == TypeFromString(virDomainSeclabel, "none")

VIR_DOMAIN_SECLABEL_DYNAMIC == TypeFromString(virDomainSeclabel, "dynamic")

VIR_DOMAIN_SECLABEL_STATIC == TypeFromString(virDomainSeclabel, "static")

virDomainCpuPlacementMode == <<"static", "auto">>

virNumaTuneMemPlacementMode == <<"default", "static", "auto">>

virDomainNumatuneMemMode == <<"strict", "preferred", "interleave">>

VIR_DOMAIN_CPU_PLACEMENT_MODE_STATIC == TypeFromString(virDomainCpuPlacementMode, "static")

VIR_DOMAIN_CPU_PLACEMENT_MODE_AUTO == TypeFromString(virDomainCpuPlacementMode, "auto")

VIR_NUMA_TUNE_MEM_PLACEMENT_MODE_STATIC == TypeFromString(virNumaTuneMemPlacementMode, "static")

VIR_NUMA_TUNE_MEM_PLACEMENT_MODE_AUTO == TypeFromString(virNumaTuneMemPlacementMode, "auto")

VIR_DOMAIN_NUMATUNE_MEM_STRICT == TypeFromString(virDomainNumatuneMemMode, "strict")

virDomainInputBus == <<"ps2", "usb", "xen">>

virDomainGraphics == <<"sdl", "vnc", "rdp", "desktop", "spice">>

VIR_DOMAIN_VIRT_QEMU == TypeFromString(virDomainVirt, "qemu")

VIR_DOMAIN_VIRT_KQEMU == TypeFromString(virDomainVirt, "kqemu")

VIR_DOMAIN_VIRT_KVM == TypeFromString(virDomainVirt, "kvm")

VIR_DOMAIN_VIRT_XEN == TypeFromString(virDomainVirt, "xen")

VIR_DOMAIN_BOOT_DISK == TypeFromString(virDomainBoot, "hd")

VIR_DOMAIN_BOOT_LAST == Len(virDomainBoot)

VIR_DOMAIN_DISK_DEVICE_DISK == TypeFromString(virDomainDiskDevice, "disk")

VIR_DOMAIN_DISK_TYPE_FILE == TypeFromString(virDomainDisk, "file")

VIR_DOMAIN_HOSTDEV_MODE_SUBSYS == TypeFromString(virDomainHostdevMode, "subsystem")

VIR_DOMAIN_HOSTDEV_MODE_CAPABILITIES == TypeFromString(virDomainHostdevMode, "capabilities")

VIR_DOMAIN_HOSTDEV_SUBSYS_TYPE_USB == TypeFromString(virDomainHostdevSubsys, "usb")

VIR_DOMAIN_HOSTDEV_SUBSYS_TYPE_PCI == TypeFromString(virDomainHostdevSubsys, "pci")

VIR_DOMAIN_HOSTDEV_CAPS_TYPE_STORAGE == TypeFromString(virDomainHostdevCaps, "storage")

VIR_DOMAIN_CONTROLLER_TYPE_USB == TypeFromString(virDomainController, "usb")

virDomainDeviceAddress ==
    <<"none", "pci", "drive", "virtio-serial", "ccid", "usb", "spapr-vio",
      "virtio-s390", "ccw">>

VIR_DOMAIN_DEVICE_ADDRESS_TYPE_NONE == TypeFromString(virDomainDeviceAddress, "none")

VIR_DOMAIN_DEVICE_ADDRESS_TYPE_PCI == TypeFromString(virDomainDeviceAddress, "pci")

VIR_DOMAIN_DEVICE_ADDRESS_TYPE_DRIVE == TypeFromString(virDomainDeviceAddress, "drive")

VIR_DOMAIN_DEVICE_ADDRESS_TYPE_VIRTIO_SERIAL == TypeFromString(virDomainDeviceAddress, "virtio-serial")

VIR_DOMAIN_DEVICE_ADDRESS_TYPE_CCID == TypeFromString(virDomainDeviceAddress, "ccid")

VIR_DOMAIN_DEVICE_ADDRESS_TYPE_USB == TypeFromString(virDomainDeviceAddress, "usb")

VIR_DOMAIN_CONTROLLER_TYPE_VIRTIO_SERIAL == TypeFromString(virDomainController, "virtio-serial")

VIR_DOMAIN_CONTROLLER_TYPE_CCID == TypeFromString(virDomainController, "ccid")

VIR_DOMAIN_DISK_DEVICE_CDROM == TypeFromString(virDomainDiskDevice, "cdrom")

VIR_DOMAIN_DISK_DEVICE_FLOPPY == TypeFromString(virDomainDiskDevice, "floppy")

VIR_DOMAIN_DISK_DEVICE_LUN == TypeFromString(virDomainDiskDevice, "lun")

VIR_DOMAIN_DISK_BUS_IDE == TypeFromString(virDomainDiskBus, "ide")

VIR_DOMAIN_DISK_BUS_FDC == TypeFromString(virDomainDiskBus, "fdc")

VIR_DOMAIN_DISK_BUS_SCSI == TypeFromString(virDomainDiskBus, "scsi")

VIR_DOMAIN_DISK_BUS_VIRTIO == TypeFromString(virDomainDiskBus, "virtio")

VIR_DOMAIN_DISK_BUS_XEN == TypeFromString(virDomainDiskBus, "xen")

VIR_DOMAIN_DISK_BUS_UML == TypeFromString(virDomainDiskBus, "uml")

VIR_DOMAIN_DISK_BUS_SATA == TypeFromString(virDomainDiskBus, "sata")

VIR_DOMAIN_CONTROLLER_TYPE_IDE == TypeFromString(virDomainController, "ide")

VIR_DOMAIN_CONTROLLER_TYPE_FDC == TypeFromString(virDomainController, "fdc")

VIR_DOMAIN_CONTROLLER_TYPE_SCSI == TypeFromString(virDomainController, "scsi")

VIR_DOMAIN_CONTROLLER_TYPE_SATA == TypeFromString(virDomainController, "sata")

VIR_DOMAIN_CONTROLLER_MODEL_USB_NONE == TypeFromString(virDomainControllerModelUSB, "none")

VIR_DOMAIN_VIRT_TEST == TypeFromString(virDomainVirt, "test")

VIR_DOMAIN_VIRT_VMWARE == TypeFromString(virDomainVirt, "vmware")

VIR_DOMAIN_VIRT_VBOX == TypeFromString(virDomainVirt, "vbox")

VIR_DOMAIN_INPUT_TYPE_MOUSE == TypeFromString(virDomainInput, "mouse")

VIR_DOMAIN_INPUT_BUS_PS2 == TypeFromString(virDomainInputBus, "ps2")

VIR_DOMAIN_INPUT_BUS_USB == TypeFromString(virDomainInputBus, "usb")

VIR_DOMAIN_INPUT_BUS_XEN == TypeFromString(virDomainInputBus, "xen")

VIR_DOMAIN_VIDEO_TYPE_VGA == TypeFromString(virDomainVideo, "vga")

VIR_DOMAIN_VIDEO_TYPE_CIRRUS == TypeFromString(virDomainVideo, "cirrus")

VIR_DOMAIN_VIDEO_TYPE_VMVGA == TypeFromString(virDomainVideo, "vmvga")

VIR_DOMAIN_VIDEO_TYPE_XEN == TypeFromString(virDomainVideo, "xen")

VIR_DOMAIN_VIDEO_TYPE_VBOX == TypeFromString(virDomainVideo, "vbox")

VIR_DOMAIN_VIDEO_TYPE_QXL == TypeFromString(virDomainVideo, "qxl")

(***************************************************************************)
(* Flags: a flag word is the set of the names of its bits.                 *)
(***************************************************************************)
VIR_DOMAIN_XML_SECURE == "SECURE"

VIR_DOMAIN_XML_INACTIVE == "INACTIVE"

VIR_DOMAIN_XML_UPDATE_CPU == "UPDATE_CPU"

VIR_DOMAIN_XML_MIGRATABLE == "MIGRATABLE"

VIR_DOMAIN_XML_INTERNAL_STATUS == "INTERNAL_STATUS"

VIR_DOMAIN_XML_INTERNAL_ALLOW_BOOT == "INTERNAL_ALLOW_BOOT"

VIR_DOMAIN_XML_INTERNAL_ACTUAL_NET == "INTERNAL_ACTUAL_NET"

VIR_DOMAIN_XML_INTERNAL_PCI_ORIG_STATES == "INTERNAL_PCI_ORIG_STATES"

VIR_DOMAIN_XML_INTERNAL_ALLOW_ROM == "INTERNAL_ALLOW_ROM"

\* the number of the bit of each public flag (virDomainXMLFlags)
virDomainXMLFlags ==
    [f \in {VIR_DOMAIN_XML_SECURE, VIR_DOMAIN_XML_INACTIVE, VIR_DOMAIN_XML_UPDATE_CPU,
             VIR_DOMAIN_XML_MIGRATABLE} |->
        CASE f = VIR_DOMAIN_XML_SECURE -> 0
          [] f = VIR_DOMAIN_XML_INACTIVE -> 1
          [] f = VIR_DOMAIN_XML_UPDATE_CPU -> 2
          [] f = VIR_DOMAIN_XML_MIGRATABLE -> 3]

\* the number of the bit of each private flag: (1<<16) .. (1<<20)
virDomainXMLInternalFlags ==
    [f \in {VIR_DOMAIN_XML_INTERNAL_STATUS, VIR_DOMAIN_XML_INTERNAL_ACTUAL_NET,
             VIR_DOMAIN_XML_INTERNAL_PCI_ORIG_STATES, VIR_DOMAIN_XML_INTERNAL_ALLOW_ROM,
             VIR_DOMAIN_XML_INTERNAL_ALLOW_BOOT} |->
        CASE f = VIR_DOMAIN_XML_INTERNAL_STATUS -> 16
          [] f = VIR_DOMAIN_XML_INTERNAL_ACTUAL_NET -> 17
          [] f = VIR_DOMAIN_XML_INTERNAL_PCI_ORIG_STATES -> 18
          [] f = VIR_DOMAIN_XML_INTERNAL_ALLOW_ROM -> 19
          [] f = VIR_DOMAIN_XML_INTERNAL_ALLOW_BOOT -> 20]

\* the bits that are set in the flag word of a set of flags
FlagBits(fl) ==
    {virDomainXMLFlags[f] : f \in fl \cap DOMAIN virDomainXMLFlags}
    \cup {virDomainXMLInternalFlags[f] : f \in fl \cap DOMAIN virDomainXMLInternalFlags}

(***************************************************************************)
(* The parser, virDomainDefParseXML.  It is modelled as the sequence of    *)
(* its sections; each section maps a parse state                           *)
(*     [def, err, calls, bootMap, usb_none, usb_other]                     *)
(* to the next one.  err is the reported error (NoErr: none): once it is   *)
(* set the remaining sections are skipped, as after "goto error".  calls   *)
(* is the log of the post-parse hooks that ran.  bootMap is the bitmap of  *)
(* the boot orders, <<>> when the pointer is null.                         *)
(***************************************************************************)
Fail(st, msg) == [st EXCEPT !.err = msg]

\* VIR_ALLOC(def) : the zero-filled definition
DefAlloc ==
    [id |-> 0, virtType |-> 0, name |-> NULL, uuid |-> NULL,
     mem |-> [max_balloon |-> 0, cur_balloon |-> 0],
     blkio |-> [weight |-> 0, devices |-> <<>>],
     os |-> [type |-> NULL, arch |-> NULL, machine |-> NULL, init |-> NULL,
             bootloader |-> NULL, bootDevs |-> <<>>],
     seclabels |-> <<>>,
     maxvcpus |-> 0, vcpus |-> 0, placement_mode |-> 0, cpumask |-> <<>>,
     cputune |-> [vcpupin |-> <<>>, emulatorpin |-> <<>>],
     numatune |-> [memory |-> [nodemask |-> <<>>, mode |-> 0, placement_mode |-> 0]],
     cpu |-> <<>>,
     disks |-> <<>>, controllers |-> <<>>, smartcards |-> <<>>, channels |-> <<>>,
     inputs |-> <<>>, graphics |-> <<>>, videos |-> <<>>,
     nets |-> <<>>, sounds |-> <<>>, hostdevs |-> <<>>, serials |-> <<>>,
     parallels |-> <<>>, consoles |-> <<>>, fss |-> <<>>, watchdog |-> <<>>,
     memballoon |-> <<>>, rng |-> <<>>, hubs |-> <<>>, leases |-> <<>>]

\* VIR_ALLOC of a virDomainDeviceInfo : no address, no boot index
DeviceInfoAlloc ==
    [type |-> VIR_DOMAIN_DEVICE_ADDRESS_TYPE_NONE,
     addr |-> [drive |-> [controller |-> 0, bus |-> 0, target |-> 0, unit |-> 0],
               vioserial |-> [controller |-> 0, bus |-> 0, port |-> 0],
               ccid |-> [controller |-> 0, slot |-> 0],
               usb |-> [bus |-> 0, port |-> <<>>]],
     bootIndex |-> 0]

ParseStart ==
    [def |-> DefAlloc, err |-> NoErr, calls |-> <<>>, bootMap |-> <<>>,
     usb_none |-> FALSE, usb_other |-> FALSE]

\* id, type, name, uuid
ParseIdentity(st, d, fl, xo) ==
    IF st.err # NoErr THEN st
    ELSE
    LET id == IF VIR_DOMAIN_XML_INACTIVE \notin fl /\ d.id # <<>> THEN d.id[1] ELSE -1
        virtType == IF d.type = <<>> THEN -1 ELSE TypeFromString(virDomainVirt, d.type[1])
    IN  IF d.type = <<>> THEN Fail(st, "missing domain type attribute")
        ELSE IF virtType < 0 THEN Fail(st, "invalid domain type")
        ELSE IF virtType \notin xo.expectedVirtTypes THEN Fail(st, "unexpected domain type")
        ELSE IF d.name = <<>> THEN Fail(st, "VIR_ERR_NO_NAME")
        ELSE [st EXCEPT !.def.id = id,
                        !.def.virtType = virtType,
                        !.def.name = d.name[1],
                        !.def.uuid = IF d.uuid = <<>> THEN xo.generatedUUID ELSE d.uuid[1]]

(***************************************************************************)
(* <seclabel>: the labels, and the model of a single label without one.    *)
(***************************************************************************)
\* one <seclabel type= relabel= model=> with <label>, <imagelabel>, <baselabel>
virSecurityLabelDefParseXML(node, fl) ==
    LET type == IF node.type = <<>> THEN VIR_DOMAIN_SECLABEL_DYNAMIC
                ELSE TypeFromString(virDomainSeclabel, node.type[1])
        norelabel == IF node.relabel # <<>> THEN node.relabel[1] = "no"
                     ELSE type \in {VIR_DOMAIN_SECLABEL_STATIC, VIR_DOMAIN_SECLABEL_NONE}
        live == VIR_DOMAIN_XML_INACTIVE \notin fl /\ type # VIR_DOMAIN_SECLABEL_NONE
        wantsLabel == type = VIR_DOMAIN_SECLABEL_STATIC \/ live
        wantsImage == ~norelabel /\ live
        def == [type |-> type, norelabel |-> norelabel, implicit |-> FALSE,
                label |-> IF wantsLabel /\ node.label # <<>> THEN node.label[1] ELSE NULL,
                imagelabel |-> IF wantsImage /\ node.imagelabel # <<>>
                               THEN node.imagelabel[1] ELSE NULL,
                baselabel |-> IF type = VIR_DOMAIN_SECLABEL_DYNAMIC /\ node.baselabel # <<>>
                              THEN node.baselabel[1] ELSE NULL,
                model |-> IF node.model # <<>> THEN node.model[1] ELSE NULL]
    IN  IF type <= 0 THEN [ret |-> -1, def |-> def, msg |-> "invalid security type"]
        ELSE IF node.relabel # <<>> /\ node.relabel[1] \notin {"yes", "no"}
        THEN [ret |-> -1, def |-> def, msg |-> "invalid security relabel value"]
        ELSE IF node.relabel # <<>> /\ type = VIR_DOMAIN_SECLABEL_DYNAMIC /\ norelabel
        THEN [ret |-> -1, def |-> def, msg |-> "dynamic label type must use resource relabeling"]
        ELSE IF node.relabel # <<>> /\ type = VIR_DOMAIN_SECLABEL_NONE /\ ~norelabel
        THEN [ret |-> -1, def |-> def,
              msg |-> "resource relabeling is not compatible with 'none' label type"]
        ELSE IF wantsLabel /\ node.label = <<>>
        THEN [ret |-> -1, def |-> def, msg |-> "security label is missing"]
        ELSE IF wantsImage /\ node.imagelabel = <<>>
        THEN [ret |-> -1, def |-> def, msg |-> "security imagelabel is missing"]
        ELSE [ret |-> 0, def |-> def, msg |-> NoErr]

\* the legacy rule with the inactive flag asked of a label of type none as well
SeclabelLegacyInactiveOnly(label, fl) ==
    VIR_DOMAIN_XML_INACTIVE \in fl
    /\ \/ label.type = VIR_DOMAIN_SECLABEL_NONE
       \/ label.type = VIR_DOMAIN_SECLABEL_DYNAMIC /\ label.baselabel = NULL

\* the labels that may take the first model of the host
SeclabelLegacy(label, fl) ==
    \/ label.type = VIR_DOMAIN_SECLABEL_NONE
    \/ /\ label.type = VIR_DOMAIN_SECLABEL_DYNAMIC
       /\ label.baselabel = NULL
       /\ VIR_DOMAIN_XML_INACTIVE \in fl

\* the <seclabel> elements; host is the security models of the capabilities
virSecurityLabelDefsParseXML(st, nodes, host, fl) ==
    IF st.err # NoErr \/ nodes = <<>> THEN st
    ELSE
    LET parsed == [i \in 1..Len(nodes) |-> virSecurityLabelDefParseXML(nodes[i], fl)]
        bad == {i \in 1..Len(nodes) : parsed[i].ret < 0}
        labels == [i \in 1..Len(nodes) |-> parsed[i].def]
    IN  IF bad # {}
        THEN Fail(st, parsed[CHOOSE i \in bad : \A j \in bad : i <= j].msg)
        ELSE IF Len(labels) = 1 /\ labels[1].model = NULL /\ Len(host) > 0
        THEN IF SeclabelLegacy(labels[1], fl)
             THEN [st EXCEPT !.def.seclabels = <<[labels[1] EXCEPT !.model = host[1]]>>]
             ELSE Fail(st, "missing security model in domain seclabel")
        ELSE IF Len(labels) > 1 /\ \E i \in 1..Len(labels) : labels[i].model = NULL
        THEN Fail(st, "missing security model when using multiple labels")
        ELSE [st EXCEPT !.def.seclabels = labels]

\* the value of the element times the scale, 0 when the optional element is absent
virDomainParseScaledValue(elem, scale, required) ==
    IF elem = <<>>
    THEN [ret |-> IF required THEN -1 ELSE 0, val |-> 0]
    ELSE [ret |-> 0, val |-> elem[1] * scale]

\* the bytes, rounded up to KiB
MemoryFromBytes(r) ==
    [ret |-> r.ret, mem |-> IF r.ret < 0 THEN 0 ELSE VIR_DIV_UP(r.val, 1024)]

virDomainParseMemory(elem, required) ==
    MemoryFromBytes(virDomainParseScaledValue(elem, 1024, required))

\* <memory>, <currentMemory> and the check of the balloon against the maximum
SetBalloon(st, max_balloon, cur_balloon) ==
    [st EXCEPT !.def.mem.max_balloon = max_balloon,
               !.def.mem.cur_balloon = cur_balloon]

\* the check of the balloon against the maximum
CheckBalloon(st, max, cur) ==
    IF max.ret < 0 THEN Fail(st, "missing element ./memory[1]")
    ELSE IF cur.ret < 0 THEN Fail(st, "missing element ./currentMemory[1]")
    ELSE IF cur.mem > max.mem
         THEN IF VIR_DIV_UP(cur.mem, 4096) > VIR_DIV_UP(max.mem, 4096)
              THEN Fail(SetBalloon(st, max.mem, cur.mem), "current memory exceeds maximum")
              ELSE SetBalloon(st, max.mem, max.mem)
    ELSE IF cur.mem = 0
         THEN SetBalloon(st, max.mem, max.mem)
    ELSE SetBalloon(st, max.mem, cur.mem)

ParseMem(st, d) ==
    IF st.err # NoErr THEN st
    ELSE CheckBalloon(st, virDomainParseMemory(d.memory, TRUE),
                      virDomainParseMemory(d.currentMemory, FALSE))

\* one <device> of <blkiotune> : the path is required, the weight optional
virDomainBlkioDeviceWeightParseXML(node) ==
    IF node.path = <<>>
    THEN [ret |-> -1, dw |-> [path |-> NULL, weight |-> 0]]
    ELSE [ret |-> 0,
          dw |-> [path |-> node.path[1],
                  weight |-> IF node.weight = <<>> THEN 0 ELSE node.weight[1]]]

\* the i-th device joins the list unless its path is already there
BlkioDeviceAdd(st, i, r) ==
    IF r.ret < 0 THEN Fail(st, "missing per-device path")
    ELSE IF \E j \in 1..(i - 1) : st.def.blkio.devices[j].path = r.dw.path
         THEN Fail([st EXCEPT !.def.blkio.devices = Append(@, r.dw)],
                   "duplicate device weight path")
    ELSE [st EXCEPT !.def.blkio.devices = Append(@, r.dw)]

RECURSIVE ParseBlkioDevices(_, _, _)
ParseBlkioDevices(st, nodes, i) ==
    IF st.err # NoErr \/ i > Len(nodes) THEN st
    ELSE ParseBlkioDevices(
             BlkioDeviceAdd(st, i, virDomainBlkioDeviceWeightParseXML(nodes[i])),
             nodes, i + 1)

\* <blkiotune>
ParseBlkio(st, d) ==
    IF st.err # NoErr THEN st
    ELSE
    LET w == IF d.blkiotune.weight = <<>> THEN 0 ELSE d.blkiotune.weight[1]
    IN  ParseBlkioDevices([st EXCEPT !.def.blkio.weight = w], d.blkiotune.device, 1)

(***************************************************************************)
(* <vcpu>.  The text of a number is <<>> when it is absent or empty, else  *)
(* <<[num, val]>>: num says whether the text is an unsigned integer, val   *)
(* is its value.  A bitmap is the record of its bits and of whether its    *)
(* storage was released; a cpuset or nodeset text is a sequence of ranges  *)
(* <<lo, hi>>.                                                             *)
(***************************************************************************)
VIR_DOMAIN_CPUMASK_LEN == 1024

\* -1 for no text, -2 for a text that is no integer
virXPathULong(text) ==
    IF text = <<>> THEN [ret |-> -1, val |-> 0]
    ELSE IF ~text[1].num THEN [ret |-> -2, val |-> 0]
    ELSE [ret |-> 0, val |-> text[1].val]

\* the bitmap of a list of ranges: <<>> for a syntax error
virBitmapParse(str, bitmapSize) ==
    IF str = <<>>
       \/ \E i \in 1..Len(str) : str[i][1] > str[i][2] \/ str[i][2] >= bitmapSize
    THEN <<>>
    ELSE <<[bits |-> UNION {str[i][1]..str[i][2] : i \in 1..Len(str)}, freed |-> FALSE]>>

\* the storage is released; the pointer the caller holds is left as it is
virBitmapFree(bitmap) ==
    IF bitmap = <<>> THEN <<>> ELSE <<[bitmap[1] EXCEPT !.freed = TRUE]>>

\* the counts without the comparison of the current number with the maximum
VcpuCountsUncompared(st, max, cur) ==
    IF max.ret = -2 THEN Fail(st, "maximum vcpus must be an integer")
    ELSE IF max.ret >= 0 /\ (max.val = 0 \/ max.val % 65536 # max.val)
    THEN Fail(st, "invalid maximum number of vCPUs")
    ELSE LET maxvcpus == IF max.ret < 0 THEN 1 ELSE max.val
         IN  IF cur.ret = -2 THEN Fail(st, "current vcpus must be an integer")
             ELSE IF cur.ret < 0
             THEN [st EXCEPT !.def.maxvcpus = maxvcpus, !.def.vcpus = maxvcpus]
             ELSE IF cur.val = 0 \/ cur.val % 65536 # cur.val
             THEN Fail(st, "invalid current number of vCPUs")
             ELSE [st EXCEPT !.def.maxvcpus = maxvcpus, !.def.vcpus = cur.val]

\* the maximum and the current number of vCPUs
VcpuCounts(st, max, cur) ==
    IF max.ret = -2 THEN Fail(st, "maximum vcpus must be an integer")
    ELSE IF max.ret >= 0 /\ (max.val = 0 \/ max.val % 65536 # max.val)
    THEN Fail(st, "invalid maximum number of vCPUs")
    ELSE LET maxvcpus == IF max.ret < 0 THEN 1 ELSE max.val
         IN  IF cur.ret = -2 THEN Fail(st, "current vcpus must be an integer")
             ELSE IF cur.ret < 0
             THEN [st EXCEPT !.def.maxvcpus = maxvcpus, !.def.vcpus = maxvcpus]
             ELSE IF cur.val = 0 \/ cur.val % 65536 # cur.val
             THEN Fail(st, "invalid current number of vCPUs")
             ELSE IF maxvcpus < cur.val
             THEN Fail(st, "maxvcpus must not be less than current vcpus")
             ELSE [st EXCEPT !.def.maxvcpus = maxvcpus, !.def.vcpus = cur.val]

\* placement= and cpuset= : the cpuset is read unless the placement is auto
VcpuPlacement(st, placement, cpuset) ==
    IF st.err # NoErr THEN st
    ELSE IF placement # <<>> /\ TypeFromString(virDomainCpuPlacementMode, placement[1]) < 0
    THEN Fail(st, "Unsupported CPU placement mode")
    ELSE LET mode == IF placement # <<>>
                     THEN TypeFromString(virDomainCpuPlacementMode, placement[1])
                     ELSE VIR_DOMAIN_CPU_PLACEMENT_MODE_STATIC
         IN  IF mode # VIR_DOMAIN_CPU_PLACEMENT_MODE_AUTO /\ cpuset # <<>>
             THEN IF virBitmapParse(cpuset[1], VIR_DOMAIN_CPUMASK_LEN) = <<>>
                  THEN Fail([st EXCEPT !.def.placement_mode = mode],
                            "topology cpuset syntax error")
                  ELSE [st EXCEPT !.def.placement_mode = mode,
                                  !.def.cpumask = virBitmapParse(cpuset[1],
                                                                 VIR_DOMAIN_CPUMASK_LEN)]
             ELSE [st EXCEPT !.def.placement_mode = mode]

\* <vcpu placement= cpuset= current=>count</vcpu>
ParseVcpu(st, d) ==
    IF st.err # NoErr THEN st
    ELSE IF d.vcpu = <<>>
    THEN VcpuPlacement(VcpuCounts(st, virXPathULong(<<>>), virXPathULong(<<>>)), <<>>, <<>>)
    ELSE VcpuPlacement(VcpuCounts(st, virXPathULong(d.vcpu[1].count),
                                  virXPathULong(d.vcpu[1].current)),
                       d.vcpu[1].placement, d.vcpu[1].cpuset)

(***************************************************************************)
(* <cputune>: the <vcpupin> and <emulatorpin> children.  A pin is the      *)
(* record of its vCPU and of its bitmap.                                   *)
(***************************************************************************)
\* -1 for no text, -2 for a text that is no integer; the value is signed
virXPathInt(text) ==
    IF text = <<>> THEN [ret |-> -1, val |-> 0]
    ELSE IF ~text[1].num THEN [ret |-> -2, val |-> 0]
    ELSE [ret |-> 0, val |-> text[1].val]

VcpuPinError(msg) == [def |-> <<>>, msg |-> msg]

\* <vcpupin vcpu= cpuset=> (emulator = 0) or <emulatorpin cpuset=> (emulator = 1):
\* the pin, or none with the error
virDomainVcpuPinDefParseXML(node, maxvcpus, emulator) ==
    LET r == virXPathInt(node.vcpu)
        vcpuid == IF emulator = 0 /\ r.ret = 0 THEN r.val ELSE -1
    IN  IF emulator = 0 /\ (r.ret = -2 \/ vcpuid < -1)
        THEN VcpuPinError("vcpu id must be an unsigned integer or -1")
        ELSE IF emulator = 0 /\ vcpuid = -1
        THEN VcpuPinError("vcpu id value -1 is not allowed for vcpupin")
        ELSE IF vcpuid >= maxvcpus
        THEN VcpuPinError("vcpu id must be less than maxvcpus")
        ELSE IF node.cpuset = <<>>
        THEN VcpuPinError("missing cpuset for vcpupin")
        ELSE IF virBitmapParse(node.cpuset[1], VIR_DOMAIN_CPUMASK_LEN) = <<>>
        THEN VcpuPinError("virBitmapParse")
        ELSE [def |-> <<[vcpuid |-> vcpuid,
                         cpumask |-> virBitmapParse(node.cpuset[1],
                                                    VIR_DOMAIN_CPUMASK_LEN)[1]]>>,
              msg |-> NoErr]

\* 1 when a pin of the list has the vCPU, else 0
virDomainVcpuPinIsDuplicate(def, vcpu) ==
    IF \E i \in 1..Len(def) : def[i].vcpuid = vcpu THEN 1 ELSE 0

\* every parsed pin joins the list, whatever its vCPU
VcpuPinAddAlways(st, r) ==
    IF r.def = <<>> THEN Fail(st, r.msg)
    ELSE IF virDomainVcpuPinIsDuplicate(st.def.cputune.vcpupin, r.def[1].vcpuid) = 1
    THEN Fail(st, "duplicate vcpupin for same vcpu")
    ELSE [st EXCEPT !.def.cputune.vcpupin = Append(@, r.def[1])]

\* a parsed pin joins the list unless its vCPU is not online, which is ignored
VcpuPinAdd(st, r) ==
    IF r.def = <<>> THEN Fail(st, r.msg)
    ELSE IF virDomainVcpuPinIsDuplicate(st.def.cputune.vcpupin, r.def[1].vcpuid) = 1
    THEN Fail(st, "duplicate vcpupin for same vcpu")
    ELSE IF r.def[1].vcpuid >= st.def.vcpus
    THEN st
    ELSE [st EXCEPT !.def.cputune.vcpupin = Append(@, r.def[1])]

RECURSIVE ParseVcpuPins(_, _, _)
ParseVcpuPins(st, nodes, i) ==
    IF st.err # NoErr \/ i > Len(nodes) THEN st
    ELSE ParseVcpuPins(
             VcpuPinAdd(st, virDomainVcpuPinDefParseXML(nodes[i], st.def.maxvcpus, 0)),
             nodes, i + 1)

\* with a cpuset on <vcpu>, every online vCPU without a pin gets a copy of it
RECURSIVE VcpuPinInherit(_, _)
VcpuPinInherit(st, i) ==
    IF st.err # NoErr \/ st.def.cpumask = <<>> \/ i >= st.def.vcpus THEN st
    ELSE IF virDomainVcpuPinIsDuplicate(st.def.cputune.vcpupin, i) = 1
    THEN VcpuPinInherit(st, i + 1)
    ELSE VcpuPinInherit(
             [st EXCEPT !.def.cputune.vcpupin =
                            Append(@, [vcpuid |-> i, cpumask |-> st.def.cpumask[1]])],
             i + 1)

\* <emulatorpin>: ignored when the placement of <vcpu> is auto
ParseEmulatorPin(st, nodes) ==
    IF st.err # NoErr \/ nodes = <<>> THEN st
    ELSE IF st.def.placement_mode = VIR_DOMAIN_CPU_PLACEMENT_MODE_AUTO THEN st
    ELSE IF Len(nodes) > 1 THEN Fail(st, "only one emulatorpin is supported")
    ELSE LET r == virDomainVcpuPinDefParseXML(nodes[1], st.def.maxvcpus, 1)
         IN  IF r.def = <<>> THEN Fail(st, r.msg)
             ELSE [st EXCEPT !.def.cputune.emulatorpin = r.def]

\* <cputune>
ParseCputune(st, d) ==
    IF st.err # NoErr THEN st
    ELSE IF Len(d.cputune.vcpupin) > st.def.maxvcpus
    THEN Fail(st, "vcpupin nodes must be less than maxvcpus")
    ELSE ParseEmulatorPin(VcpuPinInherit(ParseVcpuPins(st, d.cputune.vcpupin, 1), 0),
                          d.cputune.emulatorpin)


(***************************************************************************)
(* <numatune>: its children in document order.                             *)
(***************************************************************************)
\* mode= and nodeset= of <memory>
NumatuneMemoryMode(st, cur) ==
    IF cur.mode # <<>> /\ TypeFromString(virDomainNumatuneMemMode, cur.mode[1]) < 0
    THEN Fail(st, "Unsupported NUMA memory tuning mode")
    ELSE LET mode == IF cur.mode # <<>>
                     THEN TypeFromString(virDomainNumatuneMemMode, cur.mode[1])
                     ELSE VIR_DOMAIN_NUMATUNE_MEM_STRICT
         IN  IF cur.nodeset = <<>>
             THEN [st EXCEPT !.def.numatune.memory.mode = mode]
             ELSE IF virBitmapParse(cur.nodeset[1], VIR_DOMAIN_CPUMASK_LEN) = <<>>
             THEN Fail([st EXCEPT !.def.numatune.memory.mode = mode], "cannot parse nodeset")
             ELSE [st EXCEPT !.def.numatune.memory.mode = mode,
                             !.def.numatune.memory.nodemask =
                                 virBitmapParse(cur.nodeset[1], VIR_DOMAIN_CPUMASK_LEN)]

\* a placement mode that without the attribute is always that of <vcpu>
NumatunePlacementFromVcpu(def, cur) ==
    IF cur.placement # <<>>
    THEN TypeFromString(virNumaTuneMemPlacementMode, cur.placement[1])
    ELSE IF def.placement_mode = VIR_DOMAIN_CPU_PLACEMENT_MODE_STATIC
    THEN VIR_NUMA_TUNE_MEM_PLACEMENT_MODE_STATIC
    ELSE VIR_NUMA_TUNE_MEM_PLACEMENT_MODE_AUTO

\* the placement mode of <memory>: the attribute, else static with a node
\* mask, else the placement of <vcpu>
NumatunePlacementMode(def, cur) ==
    IF cur.placement # <<>>
    THEN TypeFromString(virNumaTuneMemPlacementMode, cur.placement[1])
    ELSE IF def.numatune.memory.nodemask # <<>>
    THEN VIR_NUMA_TUNE_MEM_PLACEMENT_MODE_STATIC
    ELSE IF def.placement_mode = VIR_DOMAIN_CPU_PLACEMENT_MODE_STATIC
    THEN VIR_NUMA_TUNE_MEM_PLACEMENT_MODE_STATIC
    ELSE VIR_NUMA_TUNE_MEM_PLACEMENT_MODE_AUTO

\* placement= of <memory>, after its mode and nodeset
NumatuneMemoryPlacement(st, cur) ==
    IF st.err # NoErr THEN st
    ELSE
    LET placement_mode == NumatunePlacementMode(st.def, cur)
    IN  IF placement_mode < 0 THEN Fail(st, "Unsupported memory placement mode")
        ELSE IF placement_mode = VIR_NUMA_TUNE_MEM_PLACEMENT_MODE_STATIC
                /\ st.def.numatune.memory.nodemask = <<>>
        THEN Fail(st, "nodeset for NUMA memory tuning must be set if 'placement' is 'static'")
        ELSE IF placement_mode = VIR_NUMA_TUNE_MEM_PLACEMENT_MODE_AUTO
        THEN [st EXCEPT !.def.numatune.memory.nodemask = virBitmapFree(@),
                        !.def.placement_mode = IF st.def.cpumask = <<>>
                                               THEN VIR_DOMAIN_CPU_PLACEMENT_MODE_AUTO ELSE @,
                        !.def.numatune.memory.placement_mode = placement_mode]
        ELSE [st EXCEPT !.def.numatune.memory.placement_mode = placement_mode]

RECURSIVE NumatuneChildren(_, _, _)
NumatuneChildren(st, children, i) ==
    IF st.err # NoErr \/ i > Len(children) THEN st
    ELSE IF children[i].name = "memory"
    THEN NumatuneChildren(
             NumatuneMemoryPlacement(NumatuneMemoryMode(st, children[i]), children[i]),
             children, i + 1)
    ELSE Fail(st, "unsupported XML element")

\* the <numatune> elements: at most one; without one the memory placement
\* is auto when that of <vcpu> is
ParseNumatune(st, d) ==
    IF st.err # NoErr THEN st
    ELSE IF Len(d.numatune) > 1 THEN Fail(st, "only one numatune is supported")
    ELSE IF Len(d.numatune) = 1 THEN NumatuneChildren(st, d.numatune[1], 1)
    ELSE IF st.def.placement_mode = VIR_DOMAIN_CPU_PLACEMENT_MODE_AUTO
    THEN [st EXCEPT !.def.numatune.memory.placement_mode =
                        VIR_NUMA_TUNE_MEM_PLACEMENT_MODE_AUTO,
                    !.def.numatune.memory.mode = VIR_DOMAIN_NUMATUNE_MEM_STRICT]
    ELSE st

(***************************************************************************)
(* <cpu>.  The CPU library reads the element; of its result the parser     *)
(* looks at the topology: sockets, cores and threads are 0 without a       *)
(* <topology>, and a <topology> with a zero is refused (<<>>).  The        *)
(* documents have no <numa> cells.  The factors of the documents keep the  *)
(* product below 2^31, where the unsigned multiplication is exact.         *)
(***************************************************************************)
virCPUDefParseXML(node) ==
    IF node.topology = <<>> THEN <<[sockets |-> 0, cores |-> 0, threads |-> 0]>>
    ELSE IF node.topology[1].sockets = 0 \/ node.topology[1].cores = 0
            \/ node.topology[1].threads = 0
    THEN <<>>
    ELSE <<node.topology[1]>>

\* the check of the maximum against the topology
CpuChecked(st, cpu) ==
    IF cpu = <<>> THEN Fail(st, "Invalid CPU topology")
    ELSE IF cpu[1].sockets # 0
            /\ st.def.maxvcpus > cpu[1].sockets * cpu[1].cores * cpu[1].threads
    THEN Fail([st EXCEPT !.def.cpu = cpu], "Maximum CPUs greater than topology limit")
    ELSE [st EXCEPT !.def.cpu = cpu]

\* <cpu>
ParseCpu(st, d) ==
    IF st.err # NoErr \/ d.cpu = <<>> THEN st
    ELSE CpuChecked(st, virCPUDefParseXML(d.cpu[1]))

\* the <boot> elements of <os>, and the count of the devices carrying a <boot>
virDomainDefParseBootXML(st, d) ==
    LET deviceBoot == Cardinality({i \in 1..Len(d.devices.disk) : d.devices.disk[i].boot # <<>>})
        nodes == d.os.boot
        n == Len(nodes)
        last == IF n < VIR_DOMAIN_BOOT_LAST THEN n ELSE VIR_DOMAIN_BOOT_LAST
        val(i) == IF nodes[i].dev = <<>> THEN -1
                  ELSE TypeFromString(virDomainBoot, nodes[i].dev[1])
        devs == [i \in 1..last |-> val(i)]
        bad == {i \in 1..last : val(i) < 0}
        first == CHOOSE i \in bad : \A j \in bad : i <= j
    IN  IF n > 0 /\ deviceBoot > 0
        THEN [st |-> Fail(st, "per-device boot elements cannot be used together with os/boot elements"),
              bootCount |-> 0]
        ELSE IF bad # {}
        THEN [st |-> Fail(st, IF nodes[first].dev = <<>>
                              THEN "missing boot device"
                              ELSE "unknown boot device"),
              bootCount |-> 0]
        ELSE [st |-> [st EXCEPT !.def.os.bootDevs =
                          IF last = 0 /\ deviceBoot = 0
                          THEN <<VIR_DOMAIN_BOOT_DISK>>
                          ELSE devs],
              bootCount |-> deviceBoot]

\* virBitmapNew(size) : all bits clear
virBitmapNew(size) == [i \in 1..size |-> FALSE]

\* the bitmap of the boot orders, if a device carries one
BootMapAlloc(b) ==
    IF b.st.err # NoErr THEN b.st
    ELSE IF b.bootCount > 0
    THEN [b.st EXCEPT !.bootMap = <<virBitmapNew(b.bootCount)>>]
    ELSE b.st

\* the boot elements are read for "hvm" only
ParseOSBoot(st, d) ==
    IF st.def.os.type = "hvm" THEN BootMapAlloc(virDomainDefParseBootXML(st, d)) ELSE st

\* <bootloader>, <os><type>, arch, machine, <init>, and for "hvm" the boot elements
ParseOS(st, d, xo) ==
    IF st.err # NoErr THEN st
    ELSE
    LET bootloader == IF d.bootloader = <<>> THEN NULL ELSE d.bootloader[1]
        t0 == IF d.os.type = <<>>
              THEN (IF bootloader # NULL THEN "xen" ELSE NULL)
              ELSE d.os.type[1]
        type == IF t0 = "linux" /\ st.def.virtType = VIR_DOMAIN_VIRT_XEN THEN "xen" ELSE t0
        arch == IF d.os.arch # <<>> THEN d.os.arch[1] ELSE xo.caps.defaultArch
        machine == IF d.os.machine # <<>> THEN d.os.machine[1] ELSE xo.caps.defaultMachine
    IN  IF t0 = NULL THEN Fail(st, "no OS type")
        ELSE IF type \notin xo.caps.ostypes THEN Fail(st, "VIR_ERR_OS_TYPE")
        ELSE IF d.os.arch # <<>> /\ arch \notin xo.caps.arches
             THEN Fail(st, "No guest options available for arch")
        ELSE IF arch = NULL THEN Fail(st, "no supported architecture for os type")
        ELSE ParseOSBoot([st EXCEPT !.def.os.bootloader = bootloader,
                                    !.def.os.type = type,
                                    !.def.os.arch = arch,
                                    !.def.os.machine = machine,
                                    !.def.os.init = IF type = "exe" /\ d.os.init # <<>>
                                                    THEN d.os.init[1] ELSE NULL],
                         d)

\* <boot order='n'/> of a device
virDomainDeviceBootParseXML(node, bootMap) ==
    LET boot == IF node.order = <<>> THEN 0 ELSE node.order[1]
    IN  IF node.order = <<>>
        THEN [ret |-> -1, bootIndex |-> 0, bootMap |-> bootMap,
              msg |-> "missing boot order attribute"]
        ELSE IF boot <= 0
        THEN [ret |-> -1, bootIndex |-> 0, bootMap |-> bootMap,
              msg |-> "incorrect boot order"]
        ELSE IF bootMap # <<>> /\ boot - 1 >= Len(bootMap[1])
        THEN [ret |-> -1, bootIndex |-> 0, bootMap |-> bootMap,
              msg |-> "boot orders have to be contiguous and starting from 1"]
        ELSE IF bootMap # <<>> /\ bootMap[1][boot]
        THEN [ret |-> -1, bootIndex |-> 0, bootMap |-> bootMap,
              msg |-> "boot order used for more than one device"]
        ELSE [ret |-> 0, bootIndex |-> boot,
              bootMap |-> IF bootMap # <<>>
                          THEN <<[bootMap[1] EXCEPT ![boot] = TRUE]>>
                          ELSE bootMap,
              msg |-> NoErr]

(***************************************************************************)
(* <address>.  The text of a number is the record of val and wide: it      *)
(* stands for val, and for val + 2^32 when wide (2147483648 is val =       *)
(* -2147483648, wide).  An unsigned int is kept as the signed integer of   *)
(* the same 32 bits, which is what a cast to int gives.  The text of a USB *)
(* port is the sequence of its numbers ("1.2" is two numbers).             *)
(***************************************************************************)
\* the unsigned int of a text: the texts of 0 .. 2^32 - 1
virStrToLong_ui(text) ==
    IF (text.wide /\ text.val < 0) \/ (~text.wide /\ text.val >= 0)
    THEN [ret |-> 0, val |-> text.val]
    ELSE [ret |-> -1, val |-> 0]

\* an attribute of <address>: 0 when absent
AddressAttr(attr) ==
    IF attr = <<>> THEN [ret |-> 0, val |-> 0] ELSE virStrToLong_ui(attr[1])

AddressError(msg) == [ret |-> -1, addr |-> DeviceInfoAlloc.addr, msg |-> msg]

\* <address type='drive' controller= bus= target= unit=/>
virDomainDeviceDriveAddressParseXML(node) ==
    IF AddressAttr(node.controller).ret < 0 THEN AddressError("Cannot parse <address> 'controller' attribute")
    ELSE IF AddressAttr(node.bus).ret < 0 THEN AddressError("Cannot parse <address> 'bus' attribute")
    ELSE IF AddressAttr(node.target).ret < 0 THEN AddressError("Cannot parse <address> 'target' attribute")
    ELSE IF AddressAttr(node.unit).ret < 0 THEN AddressError("Cannot parse <address> 'unit' attribute")
    ELSE [ret |-> 0, msg |-> NoErr,
          addr |-> [DeviceInfoAlloc.addr EXCEPT
                       !.drive = [controller |-> AddressAttr(node.controller).val,
                                  bus |-> AddressAttr(node.bus).val,
                                  target |-> AddressAttr(node.target).val,
                                  unit |-> AddressAttr(node.unit).val]]]

\* a port that has to be one number
PortNumber(port) ==
    IF port = <<>> THEN [ret |-> 0, val |-> 0]
    ELSE IF Len(port[1]) # 1 THEN [ret |-> -1, val |-> 0]
    ELSE virStrToLong_ui(port[1][1])

\* <address type='virtio-serial' controller= bus= port=/>
virDomainDeviceVirtioSerialAddressParseXML(node) ==
    IF AddressAttr(node.controller).ret < 0 THEN AddressError("Cannot parse <address> 'controller' attribute")
    ELSE IF AddressAttr(node.bus).ret < 0 THEN AddressError("Cannot parse <address> 'bus' attribute")
    ELSE IF PortNumber(node.port).ret < 0 THEN AddressError("Cannot parse <address> 'port' attribute")
    ELSE [ret |-> 0, msg |-> NoErr,
          addr |-> [DeviceInfoAlloc.addr EXCEPT
                       !.vioserial = [controller |-> AddressAttr(node.controller).val,
                                      bus |-> AddressAttr(node.bus).val,
                                      port |-> PortNumber(node.port).val]]]

\* <address type='ccid' controller= slot=/>
virDomainDeviceCcidAddressParseXML(node) ==
    IF AddressAttr(node.controller).ret < 0 THEN AddressError("Cannot parse <address> 'controller' attribute")
    ELSE IF AddressAttr(node.slot).ret < 0 THEN AddressError("Cannot parse <address> 'slot' attribute")
    ELSE [ret |-> 0, msg |-> NoErr,
          addr |-> [DeviceInfoAlloc.addr EXCEPT
                       !.ccid = [controller |-> AddressAttr(node.controller).val,
                                 slot |-> AddressAttr(node.slot).val]]]

\* <address type='usb' bus= port=/> : the port is one to four numbers, kept as text
virDomainDeviceUSBAddressParseXML(node) ==
    IF node.port # <<>>
       /\ (Len(node.port[1]) \notin 1..4
           \/ \E i \in 1..Len(node.port[1]) : virStrToLong_ui(node.port[1][i]).ret < 0)
    THEN AddressError("Cannot parse <address> 'port' attribute")
    ELSE IF AddressAttr(node.bus).ret < 0 THEN AddressError("Cannot parse <address> 'bus' attribute")
    ELSE [ret |-> 0, msg |-> NoErr,
          addr |-> [DeviceInfoAlloc.addr EXCEPT
                       !.usb = [bus |-> AddressAttr(node.bus).val, port |-> node.port]]]

\* the address of each type; the numbers of the types pci, spapr-vio and
\* ccw are not in the model; no text stands for the types none and virtio-s390
AddressOfType(node, type) ==
    CASE type = "drive" -> virDomainDeviceDriveAddressParseXML(node)
      [] type = "virtio-serial" -> virDomainDeviceVirtioSerialAddressParseXML(node)
      [] type = "ccid" -> virDomainDeviceCcidAddressParseXML(node)
      [] type = "usb" -> virDomainDeviceUSBAddressParseXML(node)
      [] type \in {"none", "virtio-s390"} ->
             [ret |-> -1, addr |-> DeviceInfoAlloc.addr, msg |-> "Unknown device address type"]
      [] OTHER -> [ret |-> 0, addr |-> DeviceInfoAlloc.addr, msg |-> NoErr]

AddressResult(a, type, b) ==
    IF a.ret < 0
    THEN [ret |-> -1, info |-> DeviceInfoAlloc, bootMap |-> b.bootMap, msg |-> a.msg]
    ELSE [ret |-> 0,
          info |-> [type |-> TypeFromString(virDomainDeviceAddress, type),
                    addr |-> a.addr, bootIndex |-> b.bootIndex],
          bootMap |-> b.bootMap, msg |-> NoErr]

\* the <address> child, after the <boot> child gave b
DeviceInfoParseAddress(address, b) ==
    IF b.ret < 0
    THEN [ret |-> -1, info |-> DeviceInfoAlloc, bootMap |-> b.bootMap, msg |-> b.msg]
    ELSE IF address = <<>>
    THEN [ret |-> 0, info |-> [DeviceInfoAlloc EXCEPT !.bootIndex = b.bootIndex],
          bootMap |-> b.bootMap, msg |-> NoErr]
    ELSE IF address[1].type = <<>>
    THEN [ret |-> -1, info |-> DeviceInfoAlloc, bootMap |-> b.bootMap,
          msg |-> "No type specified for device address"]
    ELSE IF TypeFromString(virDomainDeviceAddress, address[1].type[1]) < 0
    THEN [ret |-> -1, info |-> DeviceInfoAlloc, bootMap |-> b.bootMap,
          msg |-> "unknown address type"]
    ELSE AddressResult(AddressOfType(address[1], address[1].type[1]), address[1].type[1], b)

\* the <boot> and <address> children of a device element
virDomainDeviceInfoParseXML(node, bootMap, fl) ==
    DeviceInfoParseAddress(
        node.address,
        IF VIR_DOMAIN_XML_INTERNAL_ALLOW_BOOT \in fl /\ node.boot # <<>>
        THEN virDomainDeviceBootParseXML(node.boot[1], bootMap)
        ELSE [ret |-> 0, bootIndex |-> 0, bootMap |-> bootMap, msg |-> NoErr])

\* the index a disk name stands for ("vda" is 0, "vdb" is 1): a name is
\* the record of its prefix and of the index its letters encode
virDiskNameToIndex(name) ==
    IF name.prefix \in {"fd", "hd", "vd", "sd", "xvd", "ubd"} THEN name.idx ELSE -1

virDomainDiskDefAssignAddress(xo, def) ==
    LET idx == virDiskNameToIndex(def.dst)
        drive(c, b, u) == [def EXCEPT !.info.type = VIR_DOMAIN_DEVICE_ADDRESS_TYPE_DRIVE,
                                      !.info.addr.drive.controller = c,
                                      !.info.addr.drive.bus = b,
                                      !.info.addr.drive.unit = u]
    IN  IF idx < 0 THEN [ret |-> -1, disk |-> def]
        ELSE IF def.bus = VIR_DOMAIN_DISK_BUS_SCSI
        THEN IF xo.config.hasWideScsiBus
             THEN [ret |-> 0,
                   disk |-> drive(idx \div 15, 0,
                                  IF idx % 15 >= 7 THEN (idx % 15) + 1 ELSE idx % 15)]
             ELSE [ret |-> 0, disk |-> drive(idx \div 7, 0, idx % 7)]
        ELSE IF def.bus = VIR_DOMAIN_DISK_BUS_IDE
        THEN [ret |-> 0, disk |-> drive(idx \div 4, (idx % 4) \div 2, idx % 2)]
        ELSE IF def.bus = VIR_DOMAIN_DISK_BUS_SATA
        THEN [ret |-> 0, disk |-> drive(idx \div 6, 0, idx % 6)]
        ELSE IF def.bus = VIR_DOMAIN_DISK_BUS_FDC
        THEN [ret |-> 0, disk |-> drive(idx \div 2, 0, idx % 2)]
        ELSE [ret |-> 0, disk |-> def]

DiskDevice(node) ==
    IF node.device = <<>> THEN VIR_DOMAIN_DISK_DEVICE_DISK
    ELSE TypeFromString(virDomainDiskDevice, node.device[1])

DiskTarget(node) ==
    IF node.target = <<>> THEN [prefix |-> NULL, idx |-> 0] ELSE node.target[1].dev

\* the bus attribute, or the bus the device kind or the target name implies
DiskBus(node, device, target) ==
    IF node.target # <<>> /\ node.target[1].bus # <<>>
    THEN TypeFromString(virDomainDiskBus, node.target[1].bus[1])
    ELSE IF device = VIR_DOMAIN_DISK_DEVICE_FLOPPY THEN VIR_DOMAIN_DISK_BUS_FDC
    ELSE IF target.prefix = "hd" THEN VIR_DOMAIN_DISK_BUS_IDE
    ELSE IF target.prefix = "sd" THEN VIR_DOMAIN_DISK_BUS_SCSI
    ELSE IF target.prefix = "vd" THEN VIR_DOMAIN_DISK_BUS_VIRTIO
    ELSE IF target.prefix = "xvd" THEN VIR_DOMAIN_DISK_BUS_XEN
    ELSE IF target.prefix = "ubd" THEN VIR_DOMAIN_DISK_BUS_UML
    ELSE VIR_DOMAIN_DISK_BUS_IDE

DiskError(bootMap, m) == [ret |-> -1, disk |-> <<>>, bootMap |-> bootMap, msg |-> m]

\* the drive address of a disk that has none
DiskAssigned(a, bootMap, oldMap) ==
    IF a.ret < 0 THEN DiskError(oldMap, "Unknown disk name and no address specified")
    ELSE [ret |-> 0, disk |-> a.disk, bootMap |-> bootMap, msg |-> NoErr]

\* the type attribute; without it the disk is a file
DiskType(node) ==
    IF node.type = <<>> THEN VIR_DOMAIN_DISK_TYPE_FILE
    ELSE TypeFromString(virDomainDisk, node.type[1])

\* the startupPolicy attribute of <source>, which is read for a disk of
\* the type file (the sources of the types network and volume are not among
\* the documents of the model)
DiskStartupPolicy(node) ==
    IF DiskType(node) = VIR_DOMAIN_DISK_TYPE_FILE THEN node.startupPolicy ELSE <<>>

\* the disk of the node, once its device info i is read
DiskWithInfo(xo, node, device, target, bus, i, oldMap) ==
    LET startupPolicy == DiskStartupPolicy(node)
        disk == [type |-> DiskType(node), device |-> device, bus |-> bus, dst |-> target,
                 src |-> IF node.source = <<>> THEN NULL ELSE node.source[1],
                 startupPolicy |-> IF startupPolicy = <<>> THEN 0
                                   ELSE TypeFromString(virDomainStartupPolicy,
                                                       startupPolicy[1]),
                 readonly |-> (device = VIR_DOMAIN_DISK_DEVICE_CDROM),
                 info |-> i.info]
    IN  IF i.ret < 0 THEN DiskError(oldMap, i.msg)
        ELSE IF startupPolicy # <<>>
                /\ TypeFromString(virDomainStartupPolicy, startupPolicy[1]) <= 0
        THEN DiskError(oldMap, "unknown startupPolicy value")
        ELSE IF startupPolicy # <<>>
                /\ device # VIR_DOMAIN_DISK_DEVICE_CDROM
                /\ device # VIR_DOMAIN_DISK_DEVICE_FLOPPY
        THEN DiskError(oldMap, "Setting disk startupPolicy is allowed only for cdrom or floppy")
        ELSE IF i.info.type = VIR_DOMAIN_DEVICE_ADDRESS_TYPE_NONE
        THEN DiskAssigned(virDomainDiskDefAssignAddress(xo, disk), i.bootMap, oldMap)
        ELSE [ret |-> 0, disk |-> disk, bootMap |-> i.bootMap, msg |-> NoErr]

\* the checks without the one of the name of a floppy
DiskCheckedAnyFloppyName(xo, node, bootMap, fl, device, target, bus) ==
    IF DiskType(node) < 0 THEN DiskError(bootMap, "unknown disk type")
    ELSE IF device < 0 THEN DiskError(bootMap, "unknown disk device")
    ELSE IF node.source = <<>> /\ device # VIR_DOMAIN_DISK_DEVICE_CDROM
            /\ device # VIR_DOMAIN_DISK_DEVICE_FLOPPY
    THEN DiskError(bootMap, "VIR_ERR_NO_SOURCE")
    ELSE IF node.target = <<>> THEN DiskError(bootMap, "VIR_ERR_NO_TARGET")
    ELSE IF device \in {VIR_DOMAIN_DISK_DEVICE_DISK, VIR_DOMAIN_DISK_DEVICE_LUN}
            /\ target.prefix \notin {"hd", "sd", "vd", "xvd", "ubd"}
    THEN DiskError(bootMap, "Invalid harddisk device name")
    ELSE IF bus < 0 THEN DiskError(bootMap, "unknown disk bus type")
    ELSE IF device = VIR_DOMAIN_DISK_DEVICE_FLOPPY /\ bus # VIR_DOMAIN_DISK_BUS_FDC
    THEN DiskError(bootMap, "Invalid bus type for floppy disk")
    ELSE IF device # VIR_DOMAIN_DISK_DEVICE_FLOPPY /\ bus = VIR_DOMAIN_DISK_BUS_FDC
    THEN DiskError(bootMap, "Invalid bus type for disk")
    ELSE DiskWithInfo(xo, node, device, target, bus,
                      virDomainDeviceInfoParseXML(
                          node, bootMap, fl \cup {VIR_DOMAIN_XML_INTERNAL_ALLOW_BOOT}),
                      bootMap)

\* the checks of device, source, target and bus, then the device info
DiskChecked(xo, node, bootMap, fl, device, target, bus) ==
    IF DiskType(node) < 0 THEN DiskError(bootMap, "unknown disk type")
    ELSE IF device < 0 THEN DiskError(bootMap, "unknown disk device")
    ELSE IF node.source = <<>> /\ device # VIR_DOMAIN_DISK_DEVICE_CDROM
            /\ device # VIR_DOMAIN_DISK_DEVICE_FLOPPY
    THEN DiskError(bootMap, "VIR_ERR_NO_SOURCE")
    ELSE IF node.target = <<>> THEN DiskError(bootMap, "VIR_ERR_NO_TARGET")
    ELSE IF device = VIR_DOMAIN_DISK_DEVICE_FLOPPY /\ target.prefix # "fd"
    THEN DiskError(bootMap, "Invalid floppy device name")
    ELSE IF device \in {VIR_DOMAIN_DISK_DEVICE_DISK, VIR_DOMAIN_DISK_DEVICE_LUN}
            /\ target.prefix \notin {"hd", "sd", "vd", "xvd", "ubd"}
    THEN DiskError(bootMap, "Invalid harddisk device name")
    ELSE IF bus < 0 THEN DiskError(bootMap, "unknown disk bus type")
    ELSE IF device = VIR_DOMAIN_DISK_DEVICE_FLOPPY /\ bus # VIR_DOMAIN_DISK_BUS_FDC
    THEN DiskError(bootMap, "Invalid bus type for floppy disk")
    ELSE IF device # VIR_DOMAIN_DISK_DEVICE_FLOPPY /\ bus = VIR_DOMAIN_DISK_BUS_FDC
    THEN DiskError(bootMap, "Invalid bus type for disk")
    ELSE DiskWithInfo(xo, node, device, target, bus,
                      virDomainDeviceInfoParseXML(
                          node, bootMap, fl \cup {VIR_DOMAIN_XML_INTERNAL_ALLOW_BOOT}),
                      bootMap)

DiskTyped(xo, node, bootMap, fl, device, target) ==
    DiskChecked(xo, node, bootMap, fl, device, target, DiskBus(node, device, target))

\* one <disk> element
virDomainDiskDefParseXML(xo, node, bootMap, fl) ==
    DiskTyped(xo, node, bootMap, fl, DiskDevice(node), DiskTarget(node))

\* the position at which the list, grouped by bus and ordered by name index,
\* takes the new disk (1-based: the C index plus one)
RECURSIVE DiskInsertAt(_, _, _, _)
DiskInsertAt(disks, disk, i, insertAt) ==
    IF i < 1 THEN insertAt
    ELSE IF disks[i].bus = disk.bus
            /\ virDiskNameToIndex(disks[i].dst) > virDiskNameToIndex(disk.dst)
         THEN DiskInsertAt(disks, disk, i - 1, i)
    ELSE IF disks[i].bus = disk.bus /\ insertAt = -1
         THEN DiskInsertAt(disks, disk, i - 1, i + 1)
    ELSE DiskInsertAt(disks, disk, i - 1, insertAt)

virDomainDiskInsertPreAlloced(def, disk) ==
    LET at0 == DiskInsertAt(def.disks, disk, Len(def.disks), -1)
        at == IF at0 = -1 THEN Len(def.disks) + 1 ELSE at0
    IN  [def EXCEPT !.disks = SeqInsertAt(def.disks, at, disk)]

DiskAdd(st, r) ==
    IF r.ret < 0 THEN Fail(st, r.msg)
    ELSE [st EXCEPT !.def = virDomainDiskInsertPreAlloced(st.def, r.disk),
                    !.bootMap = r.bootMap]

\* the <disk> elements, in document order
RECURSIVE ParseDisks(_, _, _, _, _)
ParseDisks(st, nodes, i, fl, xo) ==
    IF st.err # NoErr \/ i > Len(nodes) THEN st
    ELSE ParseDisks(DiskAdd(st, virDomainDiskDefParseXML(xo, nodes[i], st.bootMap, fl)),
                    nodes, i + 1, fl, xo)

virDomainControllerModelTypeFromString(def, model) ==
    IF def.type = VIR_DOMAIN_CONTROLLER_TYPE_SCSI
    THEN TypeFromString(virDomainControllerModelSCSI, model)
    ELSE IF def.type = VIR_DOMAIN_CONTROLLER_TYPE_USB
    THEN TypeFromString(virDomainControllerModelUSB, model)
    ELSE -1

\* one <controller> element
virDomainControllerDefParseXML(node, fl) ==
    LET type == IF node.type = <<>> THEN 0
                ELSE TypeFromString(virDomainController, node.type[1])
        idx == IF node.index = <<>> THEN 0 ELSE node.index[1]
        c0 == [type |-> type, idx |-> idx, model |-> -1, info |-> DeviceInfoAlloc]
        model == IF node.model = <<>> THEN -1
                 ELSE virDomainControllerModelTypeFromString(c0, node.model[1])
    IN  IF type < 0
        THEN [ret |-> -1, controller |-> c0, msg |-> "Unknown controller type"]
        ELSE IF node.model # <<>> /\ model < 0
        THEN [ret |-> -1, controller |-> c0, msg |-> "Unknown model type"]
        ELSE [ret |-> 0, controller |-> [c0 EXCEPT !.model = model], msg |-> NoErr]

RECURSIVE ControllerInsertAt(_, _, _, _)
ControllerInsertAt(controllers, controller, i, insertAt) ==
    IF i < 1 THEN insertAt
    ELSE IF controllers[i].type = controller.type /\ controllers[i].idx > controller.idx
         THEN ControllerInsertAt(controllers, controller, i - 1, i)
    ELSE IF controllers[i].type = controller.type /\ insertAt = -1
         THEN ControllerInsertAt(controllers, controller, i - 1, i + 1)
    ELSE ControllerInsertAt(controllers, controller, i - 1, insertAt)

virDomainControllerInsertPreAlloced(def, controller) ==
    LET at0 == ControllerInsertAt(def.controllers, controller, Len(def.controllers), -1)
        at == IF at0 = -1 THEN Len(def.controllers) + 1 ELSE at0
    IN  [def EXCEPT !.controllers = SeqInsertAt(def.controllers, at, controller)]

\* an addition that would not look for the controller in the list
MaybeAddControllerUnchecked(def, type, idx) ==
    [def EXCEPT !.controllers =
         Append(def.controllers,
                [type |-> type, idx |-> idx, model |-> -1, info |-> DeviceInfoAlloc])]

\* appends the controller of this type and index unless the list has one
virDomainDefMaybeAddController(def, type, idx) ==
    IF \E i \in 1..Len(def.controllers) :
           def.controllers[i].type = type /\ def.controllers[i].idx = idx
    THEN def
    ELSE [def EXCEPT !.controllers =
              Append(def.controllers,
                     [type |-> type, idx |-> idx, model |-> -1, info |-> DeviceInfoAlloc])]

IsUsbNone(c) ==
    c.type = VIR_DOMAIN_CONTROLLER_TYPE_USB /\ c.model = VIR_DOMAIN_CONTROLLER_MODEL_USB_NONE

IsUsbOther(c) ==
    c.type = VIR_DOMAIN_CONTROLLER_TYPE_USB /\ c.model # VIR_DOMAIN_CONTROLLER_MODEL_USB_NONE

\* a controller joins the sorted list; model "none" excludes every other USB controller
ControllerAdd(st, r) ==
    IF r.ret < 0 THEN Fail(st, r.msg)
    ELSE IF IsUsbNone(r.controller) /\ (st.usb_other \/ st.usb_none)
    THEN Fail(st, "Can't add another USB controller: USB is disabled for this domain")
    ELSE IF IsUsbOther(r.controller) /\ st.usb_none
    THEN Fail(st, "Can't add another USB controller: USB is disabled for this domain")
    ELSE [st EXCEPT !.def = virDomainControllerInsertPreAlloced(st.def, r.controller),
                    !.usb_none = st.usb_none \/ IsUsbNone(r.controller),
                    !.usb_other = st.usb_other \/ IsUsbOther(r.controller)]

\* the <controller> elements, in document order
RECURSIVE ParseControllerNodes(_, _, _, _)
ParseControllerNodes(st, nodes, i, fl) ==
    IF st.err # NoErr \/ i > Len(nodes) THEN st
    ELSE ParseControllerNodes(ControllerAdd(st, virDomainControllerDefParseXML(nodes[i], fl)),
                              nodes, i + 1, fl)

\* the implicit USB controller of the QEMU domains
AddImplicitUSB(st) ==
    IF st.err # NoErr THEN st
    ELSE IF st.def.virtType \in {VIR_DOMAIN_VIRT_QEMU, VIR_DOMAIN_VIRT_KQEMU, VIR_DOMAIN_VIRT_KVM}
    THEN [st EXCEPT !.def = virDomainDefMaybeAddController(
                                st.def, VIR_DOMAIN_CONTROLLER_TYPE_USB, 0)]
    ELSE st

\* the <controller> elements, then the implicit USB controller
ParseControllers(st, d, fl) ==
    AddImplicitUSB(ParseControllerNodes(st, d.devices.controller, 1, fl))

\* the <address> child of a device element that takes no <boot> child
DeviceAddressParse(node) ==
    DeviceInfoParseAddress(node.address,
                           [ret |-> 0, bootIndex |-> 0, bootMap |-> <<>>, msg |-> NoErr])

\* VIR_ALLOC of a virDomainSmartcardDef
SmartcardAlloc ==
    [type |-> 0, cert |-> <<>>, passthru |-> [type |-> 0], info |-> DeviceInfoAlloc]

SmartcardError(msg) == [ret |-> -1, card |-> SmartcardAlloc, msg |-> msg]

\* the address of a smartcard: none or ccid
SmartcardWithInfo(card, a) ==
    IF a.ret < 0 THEN SmartcardError(a.msg)
    ELSE IF a.info.type # VIR_DOMAIN_DEVICE_ADDRESS_TYPE_NONE
            /\ a.info.type # VIR_DOMAIN_DEVICE_ADDRESS_TYPE_CCID
    THEN SmartcardError("Controllers must use the 'ccid' address type")
    ELSE [ret |-> 0, card |-> [card EXCEPT !.info = a.info], msg |-> NoErr]

\* one <smartcard> element: its mode, the three certificates of the mode
\* host-certificates (the database is not modelled), the character device
\* type of the mode passthrough (its source has no child in the documents)
virDomainSmartcardDefParseXML(node, fl) ==
    LET type == IF node.mode = <<>> THEN -1
                ELSE TypeFromString(virDomainSmartcard, node.mode[1])
        passthru == IF node.type = <<>> THEN -1
                    ELSE TypeFromString(virDomainChr, node.type[1])
    IN  IF node.mode = <<>> THEN SmartcardError("missing smartcard device mode")
        ELSE IF type < 0 THEN SmartcardError("unknown smartcard device mode")
        ELSE IF type = VIR_DOMAIN_SMARTCARD_TYPE_HOST
        THEN SmartcardWithInfo([SmartcardAlloc EXCEPT !.type = type], DeviceAddressParse(node))
        ELSE IF type = VIR_DOMAIN_SMARTCARD_TYPE_HOST_CERTIFICATES
        THEN (IF Len(node.certificate) # VIR_DOMAIN_SMARTCARD_NUM_CERTIFICATES
              THEN SmartcardError("host-certificates mode needs exactly three certificates")
              ELSE SmartcardWithInfo([SmartcardAlloc EXCEPT !.type = type,
                                                            !.cert = node.certificate],
                                     DeviceAddressParse(node)))
        ELSE IF node.type = <<>>
        THEN SmartcardError("passthrough mode requires a character device type attribute")
        ELSE IF passthru < 0
        THEN SmartcardError("unknown type presented to host for character device")
        ELSE SmartcardWithInfo([SmartcardAlloc EXCEPT !.type = type,
                                                      !.passthru = [type |-> passthru]],
                               DeviceAddressParse(node))

\* the <smartcard> elements, in document order
RECURSIVE ParseSmartcards(_, _, _, _)
ParseSmartcards(st, nodes, i, fl) ==
    IF st.err # NoErr \/ i > Len(nodes) THEN st
    ELSE IF virDomainSmartcardDefParseXML(nodes[i], fl).ret < 0
    THEN Fail(st, virDomainSmartcardDefParseXML(nodes[i], fl).msg)
    ELSE ParseSmartcards(
             [st EXCEPT !.def.smartcards =
                  Append(@, virDomainSmartcardDefParseXML(nodes[i], fl).card)],
             nodes, i + 1, fl)

\* virDomainChrDefNew for a <channel>: no target type yet
virDomainChrDefNew ==
    [source |-> [type |-> 0], targetType |-> 0, target |-> [name |-> NULL],
     info |-> DeviceInfoAlloc]

ChrError(msg) == [ret |-> -1, chr |-> virDomainChrDefNew, msg |-> msg]

\* the target type of a channel: a channel has no default one
virDomainChrTargetTypeFromString(targetType) ==
    IF targetType = <<>> THEN -1
    ELSE TypeFromString(virDomainChrChannelTarget, targetType[1])

\* the <target> child of a <channel> (a guestfwd target carries a socket
\* address, which no document gives)
virDomainChrDefParseTargetXML(def, cur) ==
    LET targetType == virDomainChrTargetTypeFromString(cur.type)
    IN  IF targetType < 0
        THEN ChrError("unknown target type specified for character device")
        ELSE IF targetType = VIR_DOMAIN_CHR_CHANNEL_TARGET_TYPE_GUESTFWD
        THEN ChrError("guestfwd channel does not define a target address")
        ELSE IF targetType = VIR_DOMAIN_CHR_CHANNEL_TARGET_TYPE_VIRTIO
        THEN [ret |-> 0, msg |-> NoErr,
              chr |-> [def EXCEPT !.targetType = targetType,
                                  !.target.name = IF cur.name = <<>> THEN NULL
                                                  ELSE cur.name[1]]]
        ELSE [ret |-> 0, chr |-> [def EXCEPT !.targetType = targetType], msg |-> NoErr]

\* what follows the <target> child: spicevmc goes with virtio only; then the address
ChrWithInfo(t, node) ==
    IF t.ret < 0 THEN t
    ELSE IF t.chr.source.type = VIR_DOMAIN_CHR_TYPE_SPICEVMC
            /\ t.chr.targetType # VIR_DOMAIN_CHR_CHANNEL_TARGET_TYPE_VIRTIO
    THEN ChrError("spicevmc device type only supports virtio")
    ELSE IF DeviceAddressParse(node).ret < 0
    THEN ChrError(DeviceAddressParse(node).msg)
    ELSE [ret |-> 0, chr |-> [t.chr EXCEPT !.info = DeviceAddressParse(node).info],
          msg |-> NoErr]

\* the source type of def, then the rest
ChrTyped(def, node) ==
    IF node.target = <<>>
    THEN [ret |-> 0, chr |-> [def EXCEPT !.targetType = -1], msg |-> NoErr]
    ELSE ChrWithInfo(virDomainChrDefParseTargetXML(def, node.target[1]), node)

\* one <channel> element.  Without a <target> child the default target type
\* is asked for, there is none for a channel, and the function goes to its
\* cleanup label, which returns the device as it is: target type -1, no
\* address
virDomainChrDefParseXML(node, fl) ==
    IF node.type = <<>>
    THEN ChrTyped([virDomainChrDefNew EXCEPT !.source.type = VIR_DOMAIN_CHR_TYPE_PTY], node)
    ELSE IF TypeFromString(virDomainChr, node.type[1]) < 0
    THEN ChrError("unknown type presented to host for character device")
    ELSE ChrTyped([virDomainChrDefNew EXCEPT
                      !.source.type = TypeFromString(virDomainChr, node.type[1])], node)

\* a virtio channel without an address is on the virtio-serial bus
ChannelOnBus(chr) ==
    IF chr.targetType = VIR_DOMAIN_CHR_CHANNEL_TARGET_TYPE_VIRTIO
       /\ chr.info.type = VIR_DOMAIN_DEVICE_ADDRESS_TYPE_NONE
    THEN [chr EXCEPT !.info.type = VIR_DOMAIN_DEVICE_ADDRESS_TYPE_VIRTIO_SERIAL]
    ELSE chr

\* a channel of the virtio-serial bus without a port gets the port after
\* the highest of the channels before it on its controller and bus
ChannelWithPort(channels, chr) ==
    LET ports == {channels[j].info.addr.vioserial.port :
                     j \in {k \in 1..Len(channels) :
                               /\ channels[k].info.type = VIR_DOMAIN_DEVICE_ADDRESS_TYPE_VIRTIO_SERIAL
                               /\ channels[k].info.addr.vioserial.controller
                                      = chr.info.addr.vioserial.controller
                               /\ channels[k].info.addr.vioserial.bus
                                      = chr.info.addr.vioserial.bus}}
        maxport == CHOOSE m \in ports \cup {0} : \A p \in ports \cup {0} : p <= m
    IN  IF chr.info.type = VIR_DOMAIN_DEVICE_ADDRESS_TYPE_VIRTIO_SERIAL
           /\ chr.info.addr.vioserial.port = 0
        THEN [chr EXCEPT !.info.addr.vioserial.port = maxport + 1]
        ELSE chr

ChannelAdd(st, r) ==
    IF r.ret < 0 THEN Fail(st, r.msg)
    ELSE [st EXCEPT !.def.channels =
              Append(@, ChannelWithPort(st.def.channels, ChannelOnBus(r.chr)))]

\* the <channel> elements, in document order
RECURSIVE ParseChannels(_, _, _, _)
ParseChannels(st, nodes, i, fl) ==
    IF st.err # NoErr \/ i > Len(nodes) THEN st
    ELSE ParseChannels(ChannelAdd(st, virDomainChrDefParseXML(nodes[i], fl)),
                       nodes, i + 1, fl)

\* one <input> element
virDomainInputDefParseXML(ostype, node) ==
    LET type == IF node.type = <<>> THEN -1 ELSE TypeFromString(virDomainInput, node.type[1])
        bus == IF node.bus # <<>> THEN TypeFromString(virDomainInputBus, node.bus[1])
               ELSE IF ostype = "hvm"
               THEN (IF type = VIR_DOMAIN_INPUT_TYPE_MOUSE
                     THEN VIR_DOMAIN_INPUT_BUS_PS2 ELSE VIR_DOMAIN_INPUT_BUS_USB)
               ELSE VIR_DOMAIN_INPUT_BUS_XEN
        in == [type |-> type, bus |-> bus, info |-> DeviceInfoAlloc]
    IN  IF node.type = <<>> THEN [ret |-> -1, input |-> in, msg |-> "missing input device type"]
        ELSE IF type < 0 THEN [ret |-> -1, input |-> in, msg |-> "unknown input device type"]
        ELSE IF node.bus # <<>> /\ bus < 0
        THEN [ret |-> -1, input |-> in, msg |-> "unknown input bus type"]
        ELSE IF node.bus # <<>> /\ ostype = "hvm" /\ bus = VIR_DOMAIN_INPUT_BUS_PS2
                /\ type # VIR_DOMAIN_INPUT_TYPE_MOUSE
        THEN [ret |-> -1, input |-> in, msg |-> "ps2 bus does not support input device"]
        ELSE IF node.bus # <<>> /\ ostype = "hvm" /\ bus = VIR_DOMAIN_INPUT_BUS_XEN
        THEN [ret |-> -1, input |-> in, msg |-> "unsupported input bus"]
        ELSE IF node.bus # <<>> /\ ostype # "hvm" /\ type # VIR_DOMAIN_INPUT_TYPE_MOUSE
        THEN [ret |-> -1, input |-> in, msg |-> "xen bus does not support input device"]
        ELSE IF DeviceAddressParse(node).ret < 0
        THEN [ret |-> -1, input |-> in, msg |-> DeviceAddressParse(node).msg]
        ELSE IF bus = VIR_DOMAIN_INPUT_BUS_USB
                /\ DeviceAddressParse(node).info.type # VIR_DOMAIN_DEVICE_ADDRESS_TYPE_NONE
                /\ DeviceAddressParse(node).info.type # VIR_DOMAIN_DEVICE_ADDRESS_TYPE_USB
        THEN [ret |-> -1, input |-> in, msg |-> "Invalid address for a USB device"]
        ELSE [ret |-> 0, input |-> [in EXCEPT !.info = DeviceAddressParse(node).info],
              msg |-> NoErr]

\* an input joins the list, unless it is the mouse the guest has anyway
InputAdd(st, r) ==
    IF r.ret < 0 THEN Fail(st, r.msg)
    ELSE IF r.input.bus = VIR_DOMAIN_INPUT_BUS_USB /\ st.usb_none
    THEN Fail(st, "Can't add USB input device. USB bus is disabled")
    ELSE IF \/ (st.def.os.type = "hvm" /\ r.input.bus = VIR_DOMAIN_INPUT_BUS_PS2
                /\ r.input.type = VIR_DOMAIN_INPUT_TYPE_MOUSE)
            \/ (st.def.os.type # "hvm" /\ r.input.bus = VIR_DOMAIN_INPUT_BUS_XEN
                /\ r.input.type = VIR_DOMAIN_INPUT_TYPE_MOUSE)
    THEN st
    ELSE [st EXCEPT !.def.inputs = Append(@, r.input)]

\* the <input> elements
RECURSIVE ParseInputs(_, _, _)
ParseInputs(st, nodes, i) ==
    IF st.err # NoErr \/ i > Len(nodes) THEN st
    ELSE ParseInputs(InputAdd(st, virDomainInputDefParseXML(st.def.os.type, nodes[i])),
                     nodes, i + 1)

\* one <graphics> element (its type; ports and listeners are not modelled)
virDomainGraphicsDefParseXML(node) ==
    LET type == IF node.type = <<>> THEN -1 ELSE TypeFromString(virDomainGraphics, node.type[1])
    IN  IF node.type = <<>>
        THEN [ret |-> -1, graphics |-> [type |-> type], msg |-> "missing graphics device type"]
        ELSE IF type < 0
        THEN [ret |-> -1, graphics |-> [type |-> type], msg |-> "unknown graphics device type"]
        ELSE [ret |-> 0, graphics |-> [type |-> type], msg |-> NoErr]

GraphicsAdd(st, r) ==
    IF r.ret < 0 THEN Fail(st, r.msg)
    ELSE [st EXCEPT !.def.graphics = Append(@, r.graphics)]

RECURSIVE ParseGraphicsNodes(_, _, _)
ParseGraphicsNodes(st, nodes, i) ==
    IF st.err # NoErr \/ i > Len(nodes) THEN st
    ELSE ParseGraphicsNodes(GraphicsAdd(st, virDomainGraphicsDefParseXML(nodes[i])),
                            nodes, i + 1)

\* the mouse that graphics imply
AddImplicitInput(st) ==
    IF st.err # NoErr THEN st
    ELSE IF Len(st.def.graphics) > 0
    THEN [st EXCEPT !.def.inputs =
              Append(@, [type |-> VIR_DOMAIN_INPUT_TYPE_MOUSE,
                         bus |-> IF st.def.os.type = "hvm"
                                 THEN VIR_DOMAIN_INPUT_BUS_PS2 ELSE VIR_DOMAIN_INPUT_BUS_XEN,
                         info |-> DeviceInfoAlloc])]
    ELSE st

\* the <graphics> elements, then the mouse they imply
ParseGraphics(st, d) ==
    IF st.err # NoErr THEN st
    ELSE AddImplicitInput(ParseGraphicsNodes(st, d.devices.graphics, 1))

virDomainVideoDefaultRAM(def, type) ==
    IF type \in {VIR_DOMAIN_VIDEO_TYPE_VGA, VIR_DOMAIN_VIDEO_TYPE_CIRRUS, VIR_DOMAIN_VIDEO_TYPE_VMVGA}
    THEN IF def.virtType = VIR_DOMAIN_VIRT_VBOX THEN 8 * 1024
         ELSE IF def.virtType = VIR_DOMAIN_VIRT_VMWARE THEN 4 * 1024
         ELSE 9 * 1024
    ELSE IF type = VIR_DOMAIN_VIDEO_TYPE_XEN THEN 4 * 1024
    ELSE IF type = VIR_DOMAIN_VIDEO_TYPE_QXL THEN 64 * 1024
    ELSE 0

virDomainVideoDefaultType(def) ==
    IF def.virtType \in {VIR_DOMAIN_VIRT_TEST, VIR_DOMAIN_VIRT_QEMU, VIR_DOMAIN_VIRT_KQEMU,
                         VIR_DOMAIN_VIRT_KVM, VIR_DOMAIN_VIRT_XEN}
    THEN IF def.os.type # NULL /\ def.os.type \in {"xen", "linux"}
         THEN VIR_DOMAIN_VIDEO_TYPE_XEN
         ELSE IF def.os.arch = "ppc64" THEN VIR_DOMAIN_VIDEO_TYPE_VGA
         ELSE VIR_DOMAIN_VIDEO_TYPE_CIRRUS
    ELSE IF def.virtType = VIR_DOMAIN_VIRT_VBOX THEN VIR_DOMAIN_VIDEO_TYPE_VBOX
    ELSE IF def.virtType = VIR_DOMAIN_VIRT_VMWARE THEN VIR_DOMAIN_VIDEO_TYPE_VMVGA
    ELSE -1

\* one <video> element: the attributes of its <model> child
virDomainVideoDefParseXML(node, dom) ==
    LET type == IF node.type # <<>> THEN TypeFromString(virDomainVideo, node.type[1])
                ELSE virDomainVideoDefaultType(dom)
        v == [type |-> type,
              vram |-> IF node.vram # <<>> THEN node.vram[1]
                       ELSE virDomainVideoDefaultRAM(dom, type),
              heads |-> IF node.heads # <<>> THEN node.heads[1] ELSE 1,
              primary |-> (node.primary # <<>> /\ node.primary[1] = "yes"),
              info |-> DeviceInfoAlloc]
    IN  IF node.type # <<>> /\ type < 0
        THEN [ret |-> -1, video |-> v, msg |-> "unknown video model"]
        ELSE IF type < 0
        THEN [ret |-> -1, video |-> v, msg |-> "missing video model and cannot determine default"]
        ELSE [ret |-> 0, video |-> v, msg |-> NoErr]

\* a video joins the list: the primary one goes first, a second one is an error
VideoAdd(st, r, primaryVideo) ==
    IF r.ret < 0 THEN Fail(st, r.msg)
    ELSE IF r.video.primary /\ primaryVideo
    THEN Fail(st, "Only one primary video device is supported")
    ELSE [st EXCEPT !.def.videos =
              SeqInsertAt(@, IF r.video.primary THEN 1 ELSE Len(@) + 1, r.video)]

RECURSIVE ParseVideoNodes(_, _, _, _)
ParseVideoNodes(st, nodes, i, primaryVideo) ==
    IF st.err # NoErr \/ i > Len(nodes) THEN st
    ELSE ParseVideoNodes(
             VideoAdd(st, virDomainVideoDefParseXML(nodes[i], st.def), primaryVideo),
             nodes, i + 1,
             primaryVideo \/ virDomainVideoDefParseXML(nodes[i], st.def).video.primary)

\* the video of the default type
DefaultVideo(st, type) ==
    IF type < 0 THEN Fail(st, "cannot determine default video type")
    ELSE [st EXCEPT !.def.videos =
              <<[type |-> type, vram |-> virDomainVideoDefaultRAM(st.def, type),
                 heads |-> 1, primary |-> FALSE, info |-> DeviceInfoAlloc]>>]

\* the video that graphics imply when there is none
AddImplicitVideo(st) ==
    IF st.err # NoErr THEN st
    ELSE IF Len(st.def.graphics) > 0 /\ Len(st.def.videos) = 0
    THEN DefaultVideo(st, virDomainVideoDefaultType(st.def))
    ELSE st

\* the <video> elements, then the video that graphics imply
ParseVideos(st, d) ==
    IF st.err # NoErr THEN st
    ELSE AddImplicitVideo(ParseVideoNodes(st, d.devices.video, 1, FALSE))

\* a host device as it is allocated. source.type is the type of the
\* source: of the subsystem in the mode subsystem, of the capability in
\* the mode capabilities
virDomainHostdevDefAlloc ==
    [mode |-> VIR_DOMAIN_HOSTDEV_MODE_SUBSYS, managed |-> FALSE, startupPolicy |-> 0,
     source |-> [type |-> 0, vendor |-> 0, product |-> 0, block |-> NULL],
     info |-> DeviceInfoAlloc]

HostdevError(def, msg) == [ret |-> -1, hostdev |-> def, msg |-> msg]

HostdevOk(def) == [ret |-> 0, hostdev |-> def, msg |-> NoErr]

\* the <source> of a USB host device: its startupPolicy, then its
\* children, of which the model has <vendor>, <product> and <block>
virDomainHostdevSubsysUsbDefParseXML(source, def) ==
    LET policy == IF source.startupPolicy = <<>> THEN 0
                  ELSE TypeFromString(virDomainStartupPolicy, source.startupPolicy[1])
        got_vendor == source.vendor # <<>>
        got_product == source.product # <<>>
        d == [def EXCEPT !.startupPolicy = policy,
                         !.source.vendor = IF got_vendor THEN source.vendor[1] ELSE 0,
                         !.source.product = IF got_product THEN source.product[1] ELSE 0]
    IN  IF source.startupPolicy # <<>> /\ policy <= 0
        THEN HostdevError(def, "Unknown startup policy")
        ELSE IF source.block # <<>> THEN HostdevError(def, "unknown usb source type")
        ELSE IF got_vendor /\ d.source.vendor = 0 THEN HostdevError(def, "vendor cannot be 0.")
        ELSE IF ~got_vendor /\ got_product THEN HostdevError(def, "missing vendor")
        ELSE IF got_vendor /\ ~got_product THEN HostdevError(def, "missing product")
        ELSE HostdevOk(d)

\* the <source> of a PCI host device: of the children of the model none
\* is one it knows
virDomainHostdevSubsysPciDefParseXML(source, def) ==
    IF source.vendor # <<>> \/ source.product # <<>> \/ source.block # <<>>
    THEN HostdevError(def, "unknown pci source type")
    ELSE HostdevOk(def)

\* a host device of the mode subsystem
virDomainHostdevDefParseXMLSubsys(node, def) ==
    LET type == IF node.type = <<>> THEN -1
                ELSE TypeFromString(virDomainHostdevSubsys, node.type[1])
        d == [def EXCEPT !.managed = (node.managed = <<"yes">>), !.source.type = type]
    IN  IF node.type = <<>> THEN HostdevError(def, "missing source address type")
        ELSE IF type < 0 THEN HostdevError(def, "unknown host device source address type")
        ELSE IF node.source = <<>>
        THEN HostdevError(def, "Missing <source> element in hostdev device")
        ELSE IF type # VIR_DOMAIN_HOSTDEV_SUBSYS_TYPE_USB
                /\ node.source[1].startupPolicy # <<>>
        THEN HostdevError(def, "Setting startupPolicy is only allowed for USB devices")
        ELSE IF type = VIR_DOMAIN_HOSTDEV_SUBSYS_TYPE_PCI
        THEN virDomainHostdevSubsysPciDefParseXML(node.source[1], d)
        ELSE virDomainHostdevSubsysUsbDefParseXML(node.source[1], d)

\* a host device of the mode capabilities (of the capabilities the
\* model has storage)
virDomainHostdevDefParseXMLCaps(node, def) ==
    LET type == IF node.type = <<>> THEN -1
                ELSE TypeFromString(virDomainHostdevCaps, node.type[1])
    IN  IF node.type = <<>> THEN HostdevError(def, "missing source address type")
        ELSE IF type < 0 THEN HostdevError(def, "unknown host device source address type")
        ELSE IF node.source = <<>>
        THEN HostdevError(def, "Missing <source> element in hostdev device")
        ELSE IF type = VIR_DOMAIN_HOSTDEV_CAPS_TYPE_STORAGE
        THEN IF node.source[1].block = <<>>
             THEN HostdevError(def, "Missing <block> element in hostdev storage device")
             ELSE HostdevOk([def EXCEPT !.source.type = type,
                                        !.source.block = node.source[1].block[1]])
        ELSE HostdevError(def, "address type not supported in hostdev interfaces")

\* the device info of a host device, and the address a PCI one may have
HostdevWithInfo(r, i, bootMap) ==
    IF r.ret < 0 THEN [ret |-> -1, hostdev |-> r.hostdev, bootMap |-> bootMap, msg |-> r.msg]
    ELSE IF i.ret < 0
    THEN [ret |-> -1, hostdev |-> r.hostdev, bootMap |-> bootMap, msg |-> i.msg]
    ELSE IF /\ r.hostdev.mode = VIR_DOMAIN_HOSTDEV_MODE_SUBSYS
            /\ r.hostdev.source.type = VIR_DOMAIN_HOSTDEV_SUBSYS_TYPE_PCI
            /\ i.info.type # VIR_DOMAIN_DEVICE_ADDRESS_TYPE_NONE
            /\ i.info.type # VIR_DOMAIN_DEVICE_ADDRESS_TYPE_PCI
    THEN [ret |-> -1, hostdev |-> r.hostdev, bootMap |-> bootMap,
          msg |-> "PCI host devices must use 'pci' address type"]
    ELSE [ret |-> 0, hostdev |-> [r.hostdev EXCEPT !.info = i.info],
          bootMap |-> i.bootMap, msg |-> NoErr]

\* one <hostdev> element
virDomainHostdevDefParseXML(node, bootMap, fl) ==
    LET mode == IF node.mode = <<>> THEN VIR_DOMAIN_HOSTDEV_MODE_SUBSYS
                ELSE TypeFromString(virDomainHostdevMode, node.mode[1])
        def == [virDomainHostdevDefAlloc EXCEPT !.mode = mode]
    IN  IF mode < 0
        THEN [ret |-> -1, hostdev |-> def, bootMap |-> bootMap, msg |-> "unknown hostdev mode"]
        ELSE HostdevWithInfo(
                 IF mode = VIR_DOMAIN_HOSTDEV_MODE_SUBSYS
                 THEN virDomainHostdevDefParseXMLSubsys(node, def)
                 ELSE virDomainHostdevDefParseXMLCaps(node, def),
                 virDomainDeviceInfoParseXML(
                     node, bootMap,
                     fl \cup {VIR_DOMAIN_XML_INTERNAL_ALLOW_BOOT,
                              VIR_DOMAIN_XML_INTERNAL_ALLOW_ROM}),
                 bootMap)

\* a host device joins the list, unless it is a USB one where USB is
\* disabled (the type that is compared is the one of the source)
HostdevAdd(st, r) ==
    IF r.ret < 0 THEN Fail(st, r.msg)
    ELSE IF r.hostdev.source.type = VIR_DOMAIN_HOSTDEV_SUBSYS_TYPE_USB /\ st.usb_none
    THEN Fail(st, "Can't add host USB device: USB is disabled in this host")
    ELSE [st EXCEPT !.def.hostdevs = Append(@, r.hostdev), !.bootMap = r.bootMap]

\* the <hostdev> elements
RECURSIVE ParseHostdevs(_, _, _, _)
ParseHostdevs(st, nodes, i, fl) ==
    IF st.err # NoErr \/ i > Len(nodes) THEN st
    ELSE ParseHostdevs(HostdevAdd(st, virDomainHostdevDefParseXML(nodes[i], st.bootMap, fl)),
                       nodes, i + 1, fl)

RECURSIVE AddControllersUpTo(_, _, _, _)
AddControllersUpTo(def, controllerType, i, maxController) ==
    IF i > maxController THEN def
    ELSE AddControllersUpTo(virDomainDefMaybeAddController(def, controllerType, i),
                            controllerType, i + 1, maxController)

\* the controllers 0..max that the drive addresses of the disks of a bus
\* name; max starts at -1 and is compared with the controller cast to int
virDomainDefAddDiskControllersForType(def, controllerType, diskBus) ==
    LET used == {def.disks[i].info.addr.drive.controller :
                    i \in {j \in 1..Len(def.disks) :
                              /\ def.disks[j].bus = diskBus
                              /\ def.disks[j].info.type = VIR_DOMAIN_DEVICE_ADDRESS_TYPE_DRIVE}}
        maxController == CHOOSE m \in used \cup {-1} : \A u \in used \cup {-1} : u <= m
    IN  AddControllersUpTo(def, controllerType, 0, maxController)

\* the virtio-serial controller of every virtio channel: the one of its
\* address, or controller 0 when its address is of another type
RECURSIVE virDomainDefMaybeAddVirtioSerialController(_, _)
virDomainDefMaybeAddVirtioSerialController(def, i) ==
    IF i > Len(def.channels) THEN def
    ELSE IF def.channels[i].targetType = VIR_DOMAIN_CHR_CHANNEL_TARGET_TYPE_VIRTIO
    THEN virDomainDefMaybeAddVirtioSerialController(
             virDomainDefMaybeAddController(
                 def, VIR_DOMAIN_CONTROLLER_TYPE_VIRTIO_SERIAL,
                 IF def.channels[i].info.type = VIR_DOMAIN_DEVICE_ADDRESS_TYPE_VIRTIO_SERIAL
                 THEN def.channels[i].info.addr.vioserial.controller ELSE 0),
             i + 1)
    ELSE virDomainDefMaybeAddVirtioSerialController(def, i + 1)

\* a smartcard without an address goes to the slot after the highest one
\* in use on the CCID controller 0
SmartcardAssignSlot(def, i) ==
    LET slots == {def.smartcards[j].info.addr.ccid.slot :
                     j \in {k \in 1..Len(def.smartcards) :
                               /\ def.smartcards[k].info.type = VIR_DOMAIN_DEVICE_ADDRESS_TYPE_CCID
                               /\ def.smartcards[k].info.addr.ccid.controller = 0}}
        max == CHOOSE m \in slots \cup {-1} : \A u \in slots \cup {-1} : u <= m
    IN  [def EXCEPT !.smartcards[i].info.type = VIR_DOMAIN_DEVICE_ADDRESS_TYPE_CCID,
                    !.smartcards[i].info.addr.ccid.controller = 0,
                    !.smartcards[i].info.addr.ccid.slot = max + 1]

\* the CCID controller of every smartcard
RECURSIVE virDomainDefMaybeAddSmartcardController(_, _)
virDomainDefMaybeAddSmartcardController(def, i) ==
    IF i > Len(def.smartcards) THEN def
    ELSE IF def.smartcards[i].info.type = VIR_DOMAIN_DEVICE_ADDRESS_TYPE_CCID
    THEN virDomainDefMaybeAddSmartcardController(
             virDomainDefMaybeAddController(def, VIR_DOMAIN_CONTROLLER_TYPE_CCID,
                                            def.smartcards[i].info.addr.ccid.controller),
             i + 1)
    ELSE IF def.smartcards[i].info.type = VIR_DOMAIN_DEVICE_ADDRESS_TYPE_NONE
    THEN virDomainDefMaybeAddSmartcardController(
             virDomainDefMaybeAddController(SmartcardAssignSlot(def, i),
                                            VIR_DOMAIN_CONTROLLER_TYPE_CCID, 0),
             i + 1)
    ELSE virDomainDefMaybeAddSmartcardController(
             virDomainDefMaybeAddController(def, VIR_DOMAIN_CONTROLLER_TYPE_CCID, 0), i + 1)

\* the controllers of the disks of the four buses, then of the virtio
\* channels, then of the smartcards
virDomainDefAddImplicitControllers(def) ==
    virDomainDefMaybeAddSmartcardController(
        virDomainDefMaybeAddVirtioSerialController(
            virDomainDefAddDiskControllersForType(
                virDomainDefAddDiskControllersForType(
                    virDomainDefAddDiskControllersForType(
                        virDomainDefAddDiskControllersForType(
                            def, VIR_DOMAIN_CONTROLLER_TYPE_SCSI, VIR_DOMAIN_DISK_BUS_SCSI),
                        VIR_DOMAIN_CONTROLLER_TYPE_FDC, VIR_DOMAIN_DISK_BUS_FDC),
                    VIR_DOMAIN_CONTROLLER_TYPE_IDE, VIR_DOMAIN_DISK_BUS_IDE),
                VIR_DOMAIN_CONTROLLER_TYPE_SATA, VIR_DOMAIN_DISK_BUS_SATA),
            1),
        1)

(***************************************************************************)
(* Post-parse hooks.  The driver's callbacks are opaque: xmlopt.config     *)
(* says whether each is registered and whether it fails ("none", "ok",     *)
(* "fail"; the per-device one fails at its deviceFailAt-th call).  Every   *)
(* hook that runs is appended to the log st.calls.                         *)
(***************************************************************************)
Call(hook, kind, idx) == [hook |-> hook, kind |-> kind, idx |-> idx]

\* the first console of a fully virtualized guest with the target serial or
\* none is left out unless the caller wants every device
ConsoleSkipped(def, all) ==
    /\ ~all
    /\ def.consoles[1].targetType \in {VIR_DOMAIN_CHR_CONSOLE_TARGET_TYPE_SERIAL,
                                       VIR_DOMAIN_CHR_CONSOLE_TARGET_TYPE_NONE}
    /\ def.os.type = "hvm"

\* the devices of a list: kind is the device type the visitor is handed
DevicesOf(devs, kind, list) ==
    [i \in 1..Len(devs) |-> [kind |-> kind, list |-> list, idx |-> i]]

\* an iteration that would visit the consoles before the channels
DeviceInfoIterateConsolesFirst(def, all) ==
    DevicesOf(def.disks, "disk", "disks")
    \o DevicesOf(def.nets, "net", "nets")
    \o DevicesOf(def.sounds, "sound", "sounds")
    \o DevicesOf(def.hostdevs, "hostdev", "hostdevs")
    \o DevicesOf(def.videos, "video", "videos")
    \o DevicesOf(def.controllers, "controller", "controllers")
    \o DevicesOf(def.smartcards, "smartcard", "smartcards")
    \o DevicesOf(def.serials, "chr", "serials")
    \o DevicesOf(def.parallels, "chr", "parallels")
    \o (IF def.consoles # <<>> /\ ConsoleSkipped(def, all)
        THEN Tail(DevicesOf(def.consoles, "chr", "consoles"))
        ELSE DevicesOf(def.consoles, "chr", "consoles"))
    \o DevicesOf(def.channels, "chr", "channels")
    \o DevicesOf(def.inputs, "input", "inputs")
    \o DevicesOf(def.fss, "fs", "fss")
    \o DevicesOf(def.watchdog, "watchdog", "watchdog")
    \o DevicesOf(def.memballoon, "memballoon", "memballoon")
    \o DevicesOf(def.rng, "rng", "rng")
    \o DevicesOf(def.hubs, "hub", "hubs")

\* the devices virDomainDeviceInfoIterateInternal visits, in its order; the
\* watchdog, the memory balloon and the RNG are lists of at most one device
DeviceInfoIterateOrder(def, all) ==
    DevicesOf(def.disks, "disk", "disks")
    \o DevicesOf(def.nets, "net", "nets")
    \o DevicesOf(def.sounds, "sound", "sounds")
    \o DevicesOf(def.hostdevs, "hostdev", "hostdevs")
    \o DevicesOf(def.videos, "video", "videos")
    \o DevicesOf(def.controllers, "controller", "controllers")
    \o DevicesOf(def.smartcards, "smartcard", "smartcards")
    \o DevicesOf(def.serials, "chr", "serials")
    \o DevicesOf(def.parallels, "chr", "parallels")
    \o DevicesOf(def.channels, "chr", "channels")
    \o (IF def.consoles # <<>> /\ ConsoleSkipped(def, all)
        THEN Tail(DevicesOf(def.consoles, "chr", "consoles"))
        ELSE DevicesOf(def.consoles, "chr", "consoles"))
    \o DevicesOf(def.inputs, "input", "inputs")
    \o DevicesOf(def.fss, "fs", "fss")
    \o DevicesOf(def.watchdog, "watchdog", "watchdog")
    \o DevicesOf(def.memballoon, "memballoon", "memballoon")
    \o DevicesOf(def.rng, "rng", "rng")
    \o DevicesOf(def.hubs, "hub", "hubs")

\* the iteration with the visitor of a caller, whose failAt-th call fails
\* (0: none does): the calls made and the value returned
RECURSIVE DeviceInfoIterateWith(_, _, _, _)
DeviceInfoIterateWith(devs, i, failAt, calls) ==
    IF i > Len(devs) THEN [ret |-> 0, calls |-> calls]
    ELSE IF i = failAt THEN [ret |-> -1, calls |-> Append(calls, devs[i])]
    ELSE DeviceInfoIterateWith(devs, i + 1, failAt, Append(calls, devs[i]))

virDomainDeviceInfoIterate(def, failAt) ==
    DeviceInfoIterateWith(DeviceInfoIterateOrder(def, FALSE), 1, failAt, <<>>)

virDomainDefPostParseInternal(st) ==
    IF st.err # NoErr THEN st
    ELSE IF st.def.os.type = "exe" /\ st.def.os.init = NULL
    THEN Fail([st EXCEPT !.calls = Append(@, Call("internal", "", 0))],
              "init binary must be specified")
    ELSE [st EXCEPT !.calls = Append(@, Call("internal", "", 0))]

\* the number of calls of the per-device callback so far
DeviceCalls(st) == Cardinality({i \in 1..Len(st.calls) : st.calls[i].hook = "device"})

virDomainDeviceDefPostParse(st, dev, xo) ==
    IF xo.config.devicesPostParseCallback = "none" THEN st
    ELSE IF xo.config.devicesPostParseCallback = "fail"
            /\ DeviceCalls(st) + 1 = xo.config.deviceFailAt
    THEN Fail([st EXCEPT !.calls = Append(@, Call("device", dev.kind, dev.idx))],
              "devicesPostParseCallback failed")
    ELSE [st EXCEPT !.calls = Append(@, Call("device", dev.kind, dev.idx))]

\* the iteration stops at the first device whose callback fails
RECURSIVE virDomainDeviceInfoIterateInternal(_, _, _, _)
virDomainDeviceInfoIterateInternal(st, devs, i, xo) ==
    IF st.err # NoErr \/ i > Len(devs) THEN st
    ELSE virDomainDeviceInfoIterateInternal(virDomainDeviceDefPostParse(st, devs[i], xo),
                                            devs, i + 1, xo)

DomainPostParseCallback(st, xo) ==
    IF xo.config.domainPostParseCallback = "none" THEN st
    ELSE IF xo.config.domainPostParseCallback = "fail"
    THEN Fail([st EXCEPT !.calls = Append(@, Call("domain", "", 0))],
              "domainPostParseCallback failed")
    ELSE [st EXCEPT !.calls = Append(@, Call("domain", "", 0))]

\* the per-device callback on every device of the iteration
DevicesPostParse(st, xo) ==
    IF st.err # NoErr THEN st
    ELSE virDomainDeviceInfoIterateInternal(st, DeviceInfoIterateOrder(st.def, TRUE), 1, xo)

\* a post-parse pass that would iterate the devices before the domain callback
PostParseDevicesFirst(st, xo) ==
    virDomainDefPostParseInternal(
        IF DevicesPostParse(st, xo).err # NoErr THEN DevicesPostParse(st, xo)
        ELSE DomainPostParseCallback(DevicesPostParse(st, xo), xo))

\* a post-parse pass that would go on after a callback has failed
PostParseIgnoringFailure(st, xo) ==
    virDomainDefPostParseInternal(
        [virDomainDeviceInfoIterateInternal(
             [DomainPostParseCallback(st, xo) EXCEPT !.err = NoErr],
             DeviceInfoIterateOrder(st.def, TRUE), 1, xo)
         EXCEPT !.err = NoErr])

\* the domain callback, the per-device callback on every device, the internal pass
virDomainDefPostParse(st, xo) ==
    virDomainDefPostParseInternal(DevicesPostParse(DomainPostParseCallback(st, xo), xo))

AddImplicitControllers(st) ==
    IF st.err # NoErr THEN st
    ELSE [st EXCEPT !.def = virDomainDefAddImplicitControllers(st.def)]

\* the sections in the order of the function
ParseSections(d, fl, xo) ==
    AddImplicitControllers(
     ParseCpu(
      ParseHostdevs(
      ParseVideos(
       ParseGraphics(
        ParseInputs(
         ParseChannels(
          ParseSmartcards(
         ParseControllers(
          ParseDisks(
           ParseOS(
            ParseNumatune(
             ParseCputune(
             ParseVcpu(
              ParseBlkio(
               ParseMem(
                virSecurityLabelDefsParseXML(
                 ParseIdentity(ParseStart, d, fl, xo),
                 d.seclabel, xo.caps.secModels, fl),
                d),
               d),
              d),
              d),
             d),
            d, xo),
           d.devices.disk, 1, fl, xo),
          d, fl),
           d.devices.smartcard, 1, fl),
          d.devices.channel, 1, fl),
         d.devices.input, 1),
        d),
       d),
       d.devices.hostdev, 1, fl),
      d))

PostParse(st, xo) ==
    IF st.err # NoErr THEN st ELSE virDomainDefPostParse(st, xo)

\* the definition (<<def>>) or, after an error, none (<<>>)
ParseResult(st) ==
    IF st.err # NoErr
    THEN [def |-> <<>>, err |-> st.err, calls |-> st.calls]
    ELSE [def |-> <<st.def>>, err |-> NoErr, calls |-> st.calls]

\* the result: the definition or none, the error, and the log of the hooks
virDomainDefParseXML(d, fl, xo) ==
    ParseResult(PostParse(ParseSections(d, fl, xo), xo))

(***************************************************************************)
(* The formatter, virDomainDefFormatInternal: the document it writes.      *)
(***************************************************************************)
Opt(str) == IF str = NULL THEN <<>> ELSE <<str>>

\* an <address> without attributes
AddressNode(type) ==
    [type |-> <<TypeToString(virDomainDeviceAddress, type)>>,
     controller |-> <<>>, bus |-> <<>>, target |-> <<>>, unit |-> <<>>,
     port |-> <<>>, slot |-> <<>>]

\* a number written with %d: the signed integer of its bits
FormatInt(v) == <<[val |-> v, wide |-> FALSE]>>

\* the <boot> and <address> children written for a device; the types none
\* and virtio-s390 are not written
virDomainDeviceInfoFormat(info, fl) ==
    [boot |-> IF VIR_DOMAIN_XML_INTERNAL_ALLOW_BOOT \in fl /\ info.bootIndex # 0
              THEN <<[order |-> <<info.bootIndex>>]>>
              ELSE <<>>,
     address |->
         IF TypeToString(virDomainDeviceAddress, info.type) \in {"none", "virtio-s390"}
         THEN <<>>
         ELSE IF TypeToString(virDomainDeviceAddress, info.type) = "drive"
         THEN <<[AddressNode(info.type) EXCEPT
                    !.controller = FormatInt(info.addr.drive.controller),
                    !.bus = FormatInt(info.addr.drive.bus),
                    !.target = FormatInt(info.addr.drive.target),
                    !.unit = FormatInt(info.addr.drive.unit)]>>
         ELSE IF TypeToString(virDomainDeviceAddress, info.type) = "virtio-serial"
         THEN <<[AddressNode(info.type) EXCEPT
                    !.controller = FormatInt(info.addr.vioserial.controller),
                    !.bus = FormatInt(info.addr.vioserial.bus),
                    !.port = <<FormatInt(info.addr.vioserial.port)>>]>>
         ELSE IF TypeToString(virDomainDeviceAddress, info.type) = "ccid"
         THEN <<[AddressNode(info.type) EXCEPT
                    !.controller = FormatInt(info.addr.ccid.controller),
                    !.slot = FormatInt(info.addr.ccid.slot)]>>
         ELSE IF TypeToString(virDomainDeviceAddress, info.type) = "usb"
         THEN <<[AddressNode(info.type) EXCEPT
                    !.bus = FormatInt(info.addr.usb.bus),
                    !.port = info.addr.usb.port]>>
         ELSE <<AddressNode(info.type)>>]

virDomainDiskDefFormat(def, fl) ==
    LET i == virDomainDeviceInfoFormat(def.info, fl \cup {VIR_DOMAIN_XML_INTERNAL_ALLOW_BOOT})
    IN  [type |-> <<TypeToString(virDomainDisk, def.type)>>,
         device |-> <<TypeToString(virDomainDiskDevice, def.device)>>,
         source |-> Opt(def.src),
         startupPolicy |-> IF def.type = VIR_DOMAIN_DISK_TYPE_FILE /\ def.startupPolicy # 0
                           THEN <<TypeToString(virDomainStartupPolicy, def.startupPolicy)>>
                           ELSE <<>>,
         target |-> <<[dev |-> def.dst, bus |-> <<TypeToString(virDomainDiskBus, def.bus)>>]>>,
         boot |-> i.boot,
         address |-> i.address]

virDomainControllerModelTypeToString(def, model) ==
    IF def.type = VIR_DOMAIN_CONTROLLER_TYPE_SCSI
    THEN TypeToString(virDomainControllerModelSCSI, model)
    ELSE IF def.type = VIR_DOMAIN_CONTROLLER_TYPE_USB
    THEN TypeToString(virDomainControllerModelUSB, model)
    ELSE NULL

virDomainControllerDefFormat(def) ==
    [type |-> <<TypeToString(virDomainController, def.type)>>,
     index |-> <<def.idx>>,
     model |-> IF def.model # -1
               THEN Opt(virDomainControllerModelTypeToString(def, def.model))
               ELSE <<>>]

virDomainInputDefFormat(def, fl) ==
    [type |-> <<TypeToString(virDomainInput, def.type)>>,
     bus |-> <<TypeToString(virDomainInputBus, def.bus)>>,
     address |-> virDomainDeviceInfoFormat(def.info, fl).address]

\* <smartcard>: the certificates of the mode host-certificates, the
\* character device type of the mode passthrough
virDomainSmartcardDefFormat(def, fl) ==
    [mode |-> <<TypeToString(virDomainSmartcard, def.type)>>,
     certificate |-> IF def.type = VIR_DOMAIN_SMARTCARD_TYPE_HOST_CERTIFICATES
                     THEN def.cert ELSE <<>>,
     type |-> IF def.type \in {VIR_DOMAIN_SMARTCARD_TYPE_HOST,
                               VIR_DOMAIN_SMARTCARD_TYPE_HOST_CERTIFICATES}
              THEN <<>> ELSE <<TypeToString(virDomainChr, def.passthru.type)>>,
     address |-> virDomainDeviceInfoFormat(def.info, fl).address]

\* <channel>: its <target> has the type, and the name of a virtio target
virDomainChrDefFormat(def, fl) ==
    [type |-> <<TypeToString(virDomainChr, def.source.type)>>,
     target |-> <<[type |-> <<TypeToString(virDomainChrChannelTarget, def.targetType)>>,
                   name |-> IF def.targetType = VIR_DOMAIN_CHR_CHANNEL_TARGET_TYPE_VIRTIO
                            THEN Opt(def.target.name) ELSE <<>>]>>,
     address |-> virDomainDeviceInfoFormat(def.info, fl).address]

\* a channel whose target type has no name cannot be written ("Could not
\* format channel target type"), and so the definition cannot
ChrFormatFails(def) ==
    \E i \in 1..Len(def.channels) :
        TypeToString(virDomainChrChannelTarget, def.channels[i].targetType) = NULL

virDomainGraphicsDefFormat(def) ==
    [type |-> <<TypeToString(virDomainGraphics, def.type)>>]

virDomainVideoDefFormat(def) ==
    [type |-> <<TypeToString(virDomainVideo, def.type)>>,
     vram |-> IF def.vram # 0 THEN <<def.vram>> ELSE <<>>,
     heads |-> IF def.heads # 0 THEN <<def.heads>> ELSE <<>>,
     primary |-> IF def.primary THEN <<"yes">> ELSE <<>>]

\* <hostdev>: the mode and the type of its source, the <source> with the
\* startupPolicy and what the type has in it, then the device info
virDomainHostdevDefFormat(def, fl) ==
    LET i == virDomainDeviceInfoFormat(def.info,
                                       fl \cup {VIR_DOMAIN_XML_INTERNAL_ALLOW_BOOT,
                                                VIR_DOMAIN_XML_INTERNAL_ALLOW_ROM})
        subsys == def.mode = VIR_DOMAIN_HOSTDEV_MODE_SUBSYS
        usb == subsys /\ def.source.type = VIR_DOMAIN_HOSTDEV_SUBSYS_TYPE_USB
    IN  [mode |-> <<TypeToString(virDomainHostdevMode, def.mode)>>,
         type |-> <<IF subsys THEN TypeToString(virDomainHostdevSubsys, def.source.type)
                    ELSE TypeToString(virDomainHostdevCaps, def.source.type)>>,
         managed |-> IF subsys THEN <<IF def.managed THEN "yes" ELSE "no">> ELSE <<>>,
         source |-> <<[startupPolicy |->
                           IF subsys /\ def.startupPolicy # 0
                           THEN <<TypeToString(virDomainStartupPolicy, def.startupPolicy)>>
                           ELSE <<>>,
                       vendor |-> IF usb /\ def.source.vendor # 0
                                  THEN <<def.source.vendor>> ELSE <<>>,
                       product |-> IF usb /\ def.source.vendor # 0
                                   THEN <<def.source.product>> ELSE <<>>,
                       block |-> IF subsys THEN <<>> ELSE <<def.source.block>>]>>,
         boot |-> i.boot,
         address |-> i.address]

\* <blkiotune>: written only if some weight is set; devices of weight 0 are skipped
FormatBlkio(def) ==
    LET blkio == def.blkio.weight # 0
                 \/ \E n \in 1..Len(def.blkio.devices) : def.blkio.devices[n].weight # 0
        written == SelectSeq(def.blkio.devices, LAMBDA dw : dw.weight # 0)
    IN  IF blkio
        THEN [weight |-> IF def.blkio.weight # 0 THEN <<def.blkio.weight>> ELSE <<>>,
              device |-> [i \in 1..Len(written) |->
                             [path |-> Opt(written[i].path),
                              weight |-> <<written[i].weight>>]]]
        ELSE [weight |-> <<>>, device |-> <<>>]

\* <os>: the boot devices are written only when there is no bootloader
FormatOS(def) ==
    [type |-> <<IF def.virtType = VIR_DOMAIN_VIRT_XEN /\ def.os.type = "xen"
                THEN "linux" ELSE def.os.type>>,
     arch |-> Opt(def.os.arch),
     machine |-> Opt(def.os.machine),
     init |-> Opt(def.os.init),
     boot |-> IF def.os.bootloader = NULL
              THEN [i \in 1..Len(def.os.bootDevs) |->
                       [dev |-> <<TypeToString(virDomainBoot, def.os.bootDevs[i])>>]]
              ELSE <<>>]

\* the devices: only the USB inputs are written, and with graphics the mouse they imply
FormatDevices(def, fl) ==
    LET autoInput == [type |-> VIR_DOMAIN_INPUT_TYPE_MOUSE,
                      bus |-> IF def.os.type = "hvm"
                              THEN VIR_DOMAIN_INPUT_BUS_PS2 ELSE VIR_DOMAIN_INPUT_BUS_XEN,
                      info |-> DeviceInfoAlloc]
        usb == SelectSeq(def.inputs, LAMBDA in : in.bus = VIR_DOMAIN_INPUT_BUS_USB)
    IN  [disk |-> [i \in 1..Len(def.disks) |-> virDomainDiskDefFormat(def.disks[i], fl)],
         controller |-> [i \in 1..Len(def.controllers) |->
                            virDomainControllerDefFormat(def.controllers[i])],
         smartcard |-> [i \in 1..Len(def.smartcards) |->
                           virDomainSmartcardDefFormat(def.smartcards[i], fl)],
         channel |-> [i \in 1..Len(def.channels) |->
                         virDomainChrDefFormat(def.channels[i], fl)],
         input |-> [i \in 1..Len(usb) |-> virDomainInputDefFormat(usb[i], fl)]
                   \o (IF Len(def.graphics) > 0
                       THEN <<virDomainInputDefFormat(autoInput, fl)>> ELSE <<>>),
         graphics |-> [i \in 1..Len(def.graphics) |->
                          virDomainGraphicsDefFormat(def.graphics[i])],
         video |-> [i \in 1..Len(def.videos) |-> virDomainVideoDefFormat(def.videos[i])],
         hostdev |-> [i \in 1..Len(def.hostdevs) |->
                         virDomainHostdevDefFormat(def.hostdevs[i], fl)]]

\* the ranges of a bitmap, lowest first
RECURSIVE BitmapRanges(_)
BitmapRanges(bits) ==
    IF bits = {} THEN <<>>
    ELSE LET lo == CHOOSE b \in bits : \A c \in bits : b <= c
             hi == CHOOSE h \in bits : /\ lo..h \subseteq bits
                                       /\ h + 1 \notin bits
                                       /\ h >= lo
                                       /\ \A g \in lo..h : g \in bits
         IN  <<<<lo, hi>>>> \o BitmapRanges(bits \ (lo..hi))

virBitmapFormat(bitmap) == BitmapRanges(bitmap.bits)

virBitmapIsAllSet(bitmap) == bitmap.bits = 0..(VIR_DOMAIN_CPUMASK_LEN - 1)

\* <vcpu>: the placement always, the cpuset unless all set, current= when it
\* differs from the maximum
FormatVcpu(def) ==
    <<[count |-> <<[num |-> TRUE, val |-> def.maxvcpus]>>,
       current |-> IF def.vcpus # def.maxvcpus
                   THEN <<[num |-> TRUE, val |-> def.vcpus]>> ELSE <<>>,
       placement |-> <<TypeToString(virDomainCpuPlacementMode, def.placement_mode)>>,
       cpuset |-> IF def.cpumask # <<>> /\ ~virBitmapIsAllSet(def.cpumask[1])
                  THEN <<virBitmapFormat(def.cpumask[1])>> ELSE <<>>]>>

\* the pins that do not inherit the cpuset of <vcpu>
RECURSIVE VcpuPinsNotInherited(_, _, _)
VcpuPinsNotInherited(def, pins, i) ==
    IF i > Len(pins) THEN <<>>
    ELSE IF def.cpumask # <<>> /\ def.cpumask[1].bits = pins[i].cpumask.bits
    THEN VcpuPinsNotInherited(def, pins, i + 1)
    ELSE <<pins[i]>> \o VcpuPinsNotInherited(def, pins, i + 1)

\* <cputune>: the pins that differ from the cpuset of <vcpu>, the emulator pin
FormatCputune(def) ==
    LET kept == VcpuPinsNotInherited(def, def.cputune.vcpupin, 1)
    IN  [vcpupin |-> [i \in 1..Len(kept) |->
                         [vcpu |-> <<[num |-> TRUE, val |-> kept[i].vcpuid]>>,
                          cpuset |-> <<virBitmapFormat(kept[i].cpumask)>>]],
         emulatorpin |-> [i \in 1..Len(def.cputune.emulatorpin) |->
                             [vcpu |-> <<>>,
                              cpuset |-> <<virBitmapFormat(def.cputune.emulatorpin[i].cpumask)>>]]]

\* <numatune>: with static placement the nodeset, with another placement the
\* placement; with a node mask and no placement the element is left unfinished
FormatNumatune(def) ==
    LET memory == def.numatune.memory
        mode == <<TypeToString(virDomainNumatuneMemMode, memory.mode)>>
    IN  IF memory.nodemask = <<>> /\ memory.placement_mode = 0 THEN <<>>
        ELSE IF memory.placement_mode = VIR_NUMA_TUNE_MEM_PLACEMENT_MODE_STATIC
        THEN << <<[name |-> "memory", mode |-> mode, placement |-> <<>>,
                   nodeset |-> <<virBitmapFormat(memory.nodemask[1])>>]>> >>
        ELSE IF memory.placement_mode # 0
        THEN << <<[name |-> "memory", mode |-> mode,
                   placement |-> <<TypeToString(virNumaTuneMemPlacementMode,
                                                memory.placement_mode)>>,
                   nodeset |-> <<>>]>> >>
        ELSE << <<[name |-> "memory unfinished", mode |-> mode, placement |-> <<>>,
                   nodeset |-> <<>>]>> >>

\* <seclabel>: nothing for the default type or an implicit DAC label; the
\* model unless it is "none"; for the type none nothing more
virSecurityLabelDefFormat(def) ==
    IF TypeToString(virDomainSeclabel, def.type) = NULL
       \/ def.type = VIR_DOMAIN_SECLABEL_DEFAULT
       \/ (def.model = "dac" /\ def.implicit)
    THEN <<>>
    ELSE IF def.type = VIR_DOMAIN_SECLABEL_NONE
    THEN <<[type |-> <<TypeToString(virDomainSeclabel, def.type)>>,
            model |-> IF def.model # NULL /\ def.model # "none" THEN <<def.model>> ELSE <<>>,
            relabel |-> <<>>, label |-> <<>>, imagelabel |-> <<>>, baselabel |-> <<>>]>>
    ELSE <<[type |-> <<TypeToString(virDomainSeclabel, def.type)>>,
            model |-> IF def.model # NULL /\ def.model # "none" THEN <<def.model>> ELSE <<>>,
            relabel |-> <<IF def.norelabel THEN "no" ELSE "yes">>,
            label |-> Opt(def.label),
            imagelabel |-> IF ~def.norelabel THEN Opt(def.imagelabel) ELSE <<>>,
            baselabel |-> IF def.type = VIR_DOMAIN_SECLABEL_DYNAMIC
                          THEN Opt(def.baselabel) ELSE <<>>]>>

RECURSIVE FormatSeclabels(_, _)
FormatSeclabels(seclabels, n) ==
    IF n > Len(seclabels) THEN <<>>
    ELSE virSecurityLabelDefFormat(seclabels[n]) \o FormatSeclabels(seclabels, n + 1)

\* <cpu>, written by the CPU library: the topology when it has sockets
virCPUDefFormatBufFull(cpu) ==
    IF cpu = <<>> THEN <<>>
    ELSE <<[topology |-> IF cpu[1].sockets # 0 /\ cpu[1].cores # 0 /\ cpu[1].threads # 0
                         THEN <<cpu[1]>> ELSE <<>>]>>

virDomainDefFormatInternal(def, flags0) ==
    LET fl == IF def.id = -1 THEN flags0 \cup {VIR_DOMAIN_XML_INACTIVE} ELSE flags0
    IN  [type |-> <<TypeToString(virDomainVirt, def.virtType)>>,
         id |-> IF VIR_DOMAIN_XML_INACTIVE \notin fl THEN <<def.id>> ELSE <<>>,
         name |-> Opt(def.name),
         uuid |-> <<def.uuid>>,
         memory |-> <<def.mem.max_balloon>>,
         currentMemory |-> <<def.mem.cur_balloon>>,
         blkiotune |-> FormatBlkio(def),
         vcpu |-> FormatVcpu(def),
         cputune |-> FormatCputune(def),
         numatune |-> FormatNumatune(def),
         cpu |-> virCPUDefFormatBufFull(def.cpu),
         seclabel |-> FormatSeclabels(def.seclabels, 1),
         bootloader |-> Opt(def.os.bootloader),
         os |-> FormatOS(def),
         devices |-> FormatDevices(def, fl)]

\* flags the public formatter accepts
DUMPXML_FLAGS ==
    {VIR_DOMAIN_XML_SECURE, VIR_DOMAIN_XML_INACTIVE, VIR_DOMAIN_XML_UPDATE_CPU,
     VIR_DOMAIN_XML_MIGRATABLE}

VIR_DOMAIN_XML_WRITE_FLAGS == {VIR_DOMAIN_XML_SECURE}

VIR_DOMAIN_XML_READ_FLAGS == {VIR_DOMAIN_XML_INACTIVE}

\* the public formatter were it to hand every flag word to the internal one
FormatUnchecked(def, fl) ==
    IF ChrFormatFails(def) THEN <<>> ELSE <<virDomainDefFormatInternal(def, fl)>>

\* the document, <<>> when a flag outside DUMPXML_FLAGS or a device that
\* cannot be written makes the call fail
virDomainDefFormat(def, fl) ==
    IF fl \subseteq DUMPXML_FLAGS /\ ~ChrFormatFails(def)
    THEN <<virDomainDefFormatInternal(def, fl)>> ELSE <<>>

\* the copy is the definition the parser reads from the formatted document
CopyParse(xml, xo) ==
    IF xml = <<>> THEN [def |-> <<>>, err |-> "format failed", calls |-> <<>>]
    ELSE virDomainDefParseXML(xml[1], VIR_DOMAIN_XML_READ_FLAGS, xo)

\* every virtualization type is expected (the mask -1)
virDomainDefCopy(src, xo, migratable) ==
    LET write_flags == IF migratable
                       THEN VIR_DOMAIN_XML_WRITE_FLAGS
                            \cup {VIR_DOMAIN_XML_INACTIVE, VIR_DOMAIN_XML_MIGRATABLE}
                       ELSE VIR_DOMAIN_XML_WRITE_FLAGS
    IN  CopyParse(virDomainDefFormat(src, write_flags),
                  [xo EXCEPT !.expectedVirtTypes = 0..(Len(virDomainVirt) - 1)])

(***************************************************************************)
(* The ABI stability checker.  Its outcome is "true" or "false"; where the *)
(* code's behaviour is undefined the outcome is any of those the build can *)
(* produce, "crash" included, so that the operators give the set of the    *)
(* possible outcomes.                                                      *)
(***************************************************************************)
virDomainDeviceInfoCheckABIStability(src, dst) ==
    /\ src.type = dst.type
    /\ TypeToString(virDomainDeviceAddress, src.type) = "drive" =>
           /\ src.addr.drive.controller = dst.addr.drive.controller
           /\ src.addr.drive.bus = dst.addr.drive.bus
           /\ src.addr.drive.unit = dst.addr.drive.unit
    /\ TypeToString(virDomainDeviceAddress, src.type) = "virtio-serial" =>
           /\ src.addr.vioserial.controller = dst.addr.vioserial.controller
           /\ src.addr.vioserial.bus = dst.addr.vioserial.bus
           /\ src.addr.vioserial.port = dst.addr.vioserial.port
    /\ TypeToString(virDomainDeviceAddress, src.type) = "ccid" =>
           /\ src.addr.ccid.controller = dst.addr.ccid.controller
           /\ src.addr.ccid.slot = dst.addr.ccid.slot

virDomainDiskDefCheckABIStability(src, dst) ==
    /\ src.device = dst.device
    /\ src.bus = dst.bus
    /\ src.dst = dst.dst
    /\ src.readonly = dst.readonly
    /\ virDomainDeviceInfoCheckABIStability(src.info, dst.info)

virDomainControllerDefCheckABIStability(src, dst) ==
    /\ src.type = dst.type
    /\ src.idx = dst.idx
    /\ src.model = dst.model
    /\ virDomainDeviceInfoCheckABIStability(src.info, dst.info)

virDomainInputDefCheckABIStability(src, dst) ==
    /\ src.type = dst.type
    /\ src.bus = dst.bus
    /\ virDomainDeviceInfoCheckABIStability(src.info, dst.info)

virDomainSmartcardDefCheckABIStability(src, dst) ==
    virDomainDeviceInfoCheckABIStability(src.info, dst.info)

\* (of two virtio channels without a name, one of them of type spicevmc,
\* the default names differ)
virDomainChannelDefCheckABIStability(src, dst) ==
    /\ src.targetType = dst.targetType
    /\ src.targetType = VIR_DOMAIN_CHR_CHANNEL_TARGET_TYPE_VIRTIO =>
           /\ src.target.name = dst.target.name
           /\ ~(/\ src.source.type # dst.source.type
                /\ VIR_DOMAIN_CHR_TYPE_SPICEVMC \in {src.source.type, dst.source.type}
                /\ src.target.name = NULL)
    /\ virDomainDeviceInfoCheckABIStability(src.info, dst.info)

virDomainVideoDefCheckABIStability(src, dst) ==
    /\ src.type = dst.type
    /\ src.vram = dst.vram
    /\ src.heads = dst.heads
    /\ virDomainDeviceInfoCheckABIStability(src.info, dst.info)

virDomainHostdevDefCheckABIStability(src, dst) ==
    /\ src.mode = dst.mode
    /\ (src.mode = VIR_DOMAIN_HOSTDEV_MODE_SUBSYS => src.source.type = dst.source.type)
    /\ virDomainDeviceInfoCheckABIStability(src.info, dst.info)

\* the checks before the one of the machine type
ABIHead(src, dst) ==
    /\ src.virtType = dst.virtType
    /\ src.uuid = dst.uuid
    /\ src.mem.max_balloon = dst.mem.max_balloon
    /\ src.mem.cur_balloon = dst.mem.cur_balloon
    /\ src.vcpus = dst.vcpus
    /\ src.maxvcpus = dst.maxvcpus
    /\ src.os.type = dst.os.type
    /\ src.os.arch = dst.os.arch

\* a checker that would compare the graphics devices as well, by their types
ABIDevicesWithGraphics(src, dst) ==
    /\ src.cpu = dst.cpu
    /\ Len(src.disks) = Len(dst.disks)
    /\ \A i \in 1..Len(src.disks) :
           virDomainDiskDefCheckABIStability(src.disks[i], dst.disks[i])
    /\ Len(src.controllers) = Len(dst.controllers)
    /\ \A i \in 1..Len(src.controllers) :
           virDomainControllerDefCheckABIStability(src.controllers[i], dst.controllers[i])
    /\ Len(src.inputs) = Len(dst.inputs)
    /\ \A i \in 1..Len(src.inputs) :
           virDomainInputDefCheckABIStability(src.inputs[i], dst.inputs[i])
    /\ Len(src.videos) = Len(dst.videos)
    /\ \A i \in 1..Len(src.videos) :
           virDomainVideoDefCheckABIStability(src.videos[i], dst.videos[i])
    /\ Len(src.hostdevs) = Len(dst.hostdevs)
    /\ \A i \in 1..Len(src.hostdevs) :
           virDomainHostdevDefCheckABIStability(src.hostdevs[i], dst.hostdevs[i])
    /\ Len(src.smartcards) = Len(dst.smartcards)
    /\ \A i \in 1..Len(src.smartcards) :
           virDomainSmartcardDefCheckABIStability(src.smartcards[i], dst.smartcards[i])
    /\ Len(src.channels) = Len(dst.channels)
    /\ \A i \in 1..Len(src.channels) :
           virDomainChannelDefCheckABIStability(src.channels[i], dst.channels[i])
    /\ Len(src.graphics) = Len(dst.graphics)
    /\ \A i \in 1..Len(src.graphics) : src.graphics[i].type = dst.graphics[i].type

\* the checks after the one of the machine type: the CPU (virCPUDefIsEqual,
\* of which the model has the topology), then the device lists, each by
\* its count and then pairwise by position (the graphics devices are not
\* among them)
ABIDevices(src, dst) ==
    /\ src.cpu = dst.cpu
    /\ Len(src.disks) = Len(dst.disks)
    /\ \A i \in 1..Len(src.disks) :
           virDomainDiskDefCheckABIStability(src.disks[i], dst.disks[i])
    /\ Len(src.controllers) = Len(dst.controllers)
    /\ \A i \in 1..Len(src.controllers) :
           virDomainControllerDefCheckABIStability(src.controllers[i], dst.controllers[i])
    /\ Len(src.inputs) = Len(dst.inputs)
    /\ \A i \in 1..Len(src.inputs) :
           virDomainInputDefCheckABIStability(src.inputs[i], dst.inputs[i])
    /\ Len(src.videos) = Len(dst.videos)
    /\ \A i \in 1..Len(src.videos) :
           virDomainVideoDefCheckABIStability(src.videos[i], dst.videos[i])
    /\ Len(src.hostdevs) = Len(dst.hostdevs)
    /\ \A i \in 1..Len(src.hostdevs) :
           virDomainHostdevDefCheckABIStability(src.hostdevs[i], dst.hostdevs[i])
    /\ Len(src.smartcards) = Len(dst.smartcards)
    /\ \A i \in 1..Len(src.smartcards) :
           virDomainSmartcardDefCheckABIStability(src.smartcards[i], dst.smartcards[i])
    /\ Len(src.channels) = Len(dst.channels)
    /\ \A i \in 1..Len(src.channels) :
           virDomainChannelDefCheckABIStability(src.channels[i], dst.channels[i])

Outcome(b) == IF b THEN "true" ELSE "false"

\* STRNEQ(src->os.machine, dst->os.machine) is strcmp on the two pointers:
\* undefined when one of them is null
virDomainDefCheckABIStability(src, dst) ==
    IF ~ABIHead(src, dst) THEN {"false"}
    ELSE IF src.os.machine = NULL \/ dst.os.machine = NULL
    THEN {"crash", "false", Outcome(ABIDevices(src, dst))}
    ELSE IF src.os.machine # dst.os.machine THEN {"false"}
    ELSE {Outcome(ABIDevices(src, dst))}

(***************************************************************************)
(* The documents, flags and drivers the parser is run on.                  *)
(***************************************************************************)
MaxBootOrder == 3

MaxDisks == 2

Boot(order) == <<[order |-> <<order>>]>>

DiskNode(prefix, idx, boot) ==
    [type |-> <<>>, device |-> <<>>, source |-> <<"/img">>, startupPolicy |-> <<>>,
     target |-> <<[dev |-> [prefix |-> prefix, idx |-> idx], bus |-> <<>>]>>,
     boot |-> boot, address |-> <<>>]

VideoNode(type) == [type |-> <<type>>, vram |-> <<>>, heads |-> <<>>, primary |-> <<>>]

GraphicsNode(type) == [type |-> <<type>>]

BaseDoc ==
    [id |-> <<>>, type |-> <<"qemu">>, name |-> <<"guest">>, uuid |-> <<"uuid-1">>,
     memory |-> <<8192>>, currentMemory |-> <<>>,
     blkiotune |-> [weight |-> <<>>, device |-> <<>>],
     seclabel |-> <<>>,
     vcpu |-> <<>>, cputune |-> [vcpupin |-> <<>>, emulatorpin |-> <<>>],
     numatune |-> <<>>, cpu |-> <<>>,
     bootloader |-> <<>>,
     os |-> [type |-> <<"hvm">>, arch |-> <<>>, machine |-> <<>>, init |-> <<>>,
             boot |-> <<>>],
     devices |-> [disk |-> <<>>, controller |-> <<>>, smartcard |-> <<>>,
                  channel |-> <<>>, input |-> <<>>,
                  graphics |-> <<>>, video |-> <<>>, hostdev |-> <<>>]]

\* a driver: no callback registered, capabilities with a default machine
BaseXmlopt ==
    [expectedVirtTypes |-> {TypeFromString(virDomainVirt, t) : t \in {"qemu", "kvm", "xen", "lxc"}},
     generatedUUID |-> "uuid-gen",
     caps |-> [secModels |-> <<"selinux", "dac">>,
               ostypes |-> {"hvm", "xen", "exe"}, arches |-> {"x86_64", "ppc64"},
               defaultArch |-> "x86_64", defaultMachine |-> "pc"],
     config |-> [hasWideScsiBus |-> FALSE,
                 domainPostParseCallback |-> "none",
                 devicesPostParseCallback |-> "none",
                 deviceFailAt |-> 0]]

\* memory sizes around the 4096 KiB granularity of the balloon check
MemDocs ==
    {[BaseDoc EXCEPT !.memory = m, !.currentMemory = c] :
        m \in {<<>>, <<4096>>, <<4097>>},
        c \in {<<>>, <<0>>, <<4096>>, <<4097>>, <<8192>>, <<8193>>}}

Num(n) == <<[num |-> TRUE, val |-> n]>>

NotANumber == <<[num |-> FALSE, val |-> 0]>>

VcpuNode(count, current) ==
    <<[count |-> count, current |-> current, placement |-> <<>>, cpuset |-> <<>>]>>

\* vCPU counts around the limits of the 16-bit range
VcpuCountTexts == {<<>>, NotANumber, Num(0), Num(1), Num(2), Num(65535), Num(65536)}

Topology(sockets, cores, threads) ==
    <<[topology |-> <<[sockets |-> sockets, cores |-> cores, threads |-> threads]>>]>>

\* topologies below, at and above a maximum of 2, one with a zero, and none
CpuNodes ==
    {<<>>, <<[topology |-> <<>>]>>, Topology(1, 1, 1), Topology(1, 2, 1), Topology(2, 2, 1),
     Topology(1, 0, 1), Topology(256, 256, 1)}

VcpuDocs ==
    {[BaseDoc EXCEPT !.vcpu = VcpuNode(count, current), !.cpu = cpu] :
        count \in VcpuCountTexts, current \in VcpuCountTexts, cpu \in CpuNodes}
    \cup {[BaseDoc EXCEPT !.cpu = cpu] : cpu \in CpuNodes}

PinNode(vcpu, cpuset) == [vcpu |-> vcpu, cpuset |-> cpuset]

\* the text "0"
CpusetZero == << <<<<0, 0>>>> >>

\* the pins of the vCPUs 0, 1 and 2 with a cpuset
GoodPins == {PinNode(Num(v), CpusetZero) : v \in 0..2}

\* no pin, up to three pins of the vCPUs 0..2, four pins, and a pin that is
\* malformed: no vCPU, a vCPU that is no number, negative or not below the
\* maximum, no cpuset or one with a syntax error
PinLists ==
    {<<>>}
    \cup {<<a>> : a \in GoodPins}
    \cup {<<a, b>> : a \in GoodPins, b \in GoodPins}
    \cup {<<a, b, c>> : a \in GoodPins, b \in GoodPins, c \in GoodPins}
    \cup {<<PinNode(Num(1), CpusetZero), PinNode(Num(2), CpusetZero),
            PinNode(Num(1), CpusetZero), PinNode(Num(2), CpusetZero)>>}
    \cup {<<PinNode(vcpu, CpusetZero)>> : vcpu \in {<<>>, NotANumber, Num(-2), Num(-1), Num(3)}}
    \cup {<<PinNode(Num(1), cpuset)>> : cpuset \in {<<>>, << <<<<3, 2>>>> >>}}

\* a maximum of three vCPUs of which one, two or all are online, with and
\* without a cpuset on <vcpu>, and the pins; and the emulator pins
CputuneDocs ==
    {[BaseDoc EXCEPT !.vcpu = <<[count |-> Num(3), current |-> current,
                                 placement |-> <<>>, cpuset |-> cpuset]>>,
                     !.cputune.vcpupin = pins] :
        current \in {<<>>, Num(1), Num(2)},
        cpuset \in {<<>>, << <<<<0, 1>>>> >>},
        pins \in PinLists}
    \cup {[BaseDoc EXCEPT !.vcpu = <<[count |-> Num(2), current |-> <<>>,
                                      placement |-> placement, cpuset |-> <<>>]>>,
                          !.cputune.emulatorpin = pins] :
             placement \in {<<>>, <<"auto">>},
             pins \in {<<PinNode(<<>>, CpusetZero)>>, <<PinNode(<<>>, <<>>)>>,
                       <<PinNode(<<>>, CpusetZero), PinNode(<<>>, CpusetZero)>>}}

MemoryNode(mode, placement, nodeset) ==
    [name |-> "memory", mode |-> mode, placement |-> placement, nodeset |-> nodeset]

\* the texts "0-1" and "3-2"
NodesetTexts == {<<>>, << <<<<0, 1>>>> >>, << <<<<3, 2>>>> >>}

\* no <numatune>, one with a <memory> child, one with another child, one
\* without children, and two of them
NumatuneLists ==
    {<<>>, << <<>> >>, << <<[name |-> "cpu"]>> >>,
     << <<MemoryNode(<<>>, <<>>, <<>>)>>, <<MemoryNode(<<>>, <<>>, <<>>)>> >>}
    \cup {<< <<MemoryNode(mode, placement, nodeset)>> >> :
             mode \in {<<>>, <<"interleave">>, <<"bogus">>},
             placement \in {<<>>, <<"static">>, <<"auto">>, <<"bogus">>},
             nodeset \in NodesetTexts}

VcpuPlacements ==
    {[count |-> Num(2), current |-> <<>>, placement |-> placement, cpuset |-> cpuset] :
        placement \in {<<>>, <<"static">>, <<"auto">>, <<"bogus">>},
        cpuset \in NodesetTexts}

\* the placements of <vcpu> and of <numatune>
NumaDocs ==
    {[BaseDoc EXCEPT !.vcpu = vcpu, !.numatune = numatune] :
        vcpu \in {<<>>} \cup {<<v>> : v \in VcpuPlacements}, numatune \in NumatuneLists}

SeclabelNode(type, model, baselabel, labels) ==
    [type |-> type, model |-> model, relabel |-> <<>>, baselabel |-> baselabel,
     label |-> labels, imagelabel |-> labels]

\* one label of every type, with and without a model, a base label, the
\* labels of a running guest; and two labels
SeclabelLists ==
    {<<SeclabelNode(type, model, baselabel, labels)>> :
        type \in {<<>>, <<"none">>, <<"dynamic">>, <<"static">>, <<"default">>},
        model \in {<<>>, <<"selinux">>},
        baselabel \in {<<>>, <<"base_t">>},
        labels \in {<<>>, <<"label_t">>}}
    \cup {<<SeclabelNode(<<"none">>, m1, <<>>, <<>>), SeclabelNode(<<"none">>, m2, <<>>, <<>>)>> :
             m1 \in {<<>>, <<"selinux">>}, m2 \in {<<>>, <<"dac">>}}
    \cup {<<[SeclabelNode(<<"none">>, <<"selinux">>, <<>>, <<>>) EXCEPT !.relabel = <<r>>]>> :
             r \in {"yes", "no", "maybe"}}

SeclabelDocs == {[BaseDoc EXCEPT !.seclabel = l] : l \in SeclabelLists}

\* hosts with and without security models
SecXmlopts == {BaseXmlopt, [BaseXmlopt EXCEPT !.caps.secModels = <<>>]}

\* the text of a number below 2^31
Numeral(n) == <<[val |-> n, wide |-> FALSE]>>

\* the text "4294967295", the highest unsigned int
UINT_MAX_Text == <<[val |-> -1, wide |-> TRUE]>>

\* the text "-1"
MinusOneText == <<[val |-> -1, wide |-> FALSE]>>

\* <address type= controller=/>
Address(type, controller) ==
    <<[type |-> type, controller |-> controller, bus |-> <<>>, target |-> <<>>,
       unit |-> <<>>, port |-> <<>>, slot |-> <<>>]>>

\* <address type='usb' bus='0' port=/>
UsbAddress(port) ==
    <<[type |-> <<"usb">>, controller |-> <<>>, bus |-> Numeral(0), target |-> <<>>,
       unit |-> <<>>, port |-> <<port>>, slot |-> <<>>]>>

ControllerNumbers == {<<>>, Numeral(0), Numeral(1), Numeral(2), UINT_MAX_Text, MinusOneText}

ControllerNode(type, index) == [type |-> <<type>>, index |-> <<index>>, model |-> <<>>]

\* an IDE or a SCSI disk with a drive address, without and with a
\* controller of its bus in the document
DriveDocs ==
    {[BaseDoc EXCEPT !.devices.disk = <<[DiskNode(prefix, 0, <<>>) EXCEPT
                                            !.address = Address(<<"drive">>, c)]>>,
                     !.devices.controller = ctl] :
        prefix \in {"hd", "sd"}, c \in ControllerNumbers,
        ctl \in {<<>>, <<ControllerNode("ide", 1)>>}}
    \cup {[BaseDoc EXCEPT !.devices.disk = <<[DiskNode("hd", 0, <<>>) EXCEPT !.address = a]>>] :
             a \in {Address(<<>>, <<>>), Address(<<"bogus">>, <<>>), Address(<<"none">>, <<>>),
                    Address(<<"pci">>, <<>>)}}

ChannelNode(type, target, address) == [type |-> type, target |-> target, address |-> address]

ChannelTarget(type, name) == <<[type |-> type, name |-> name]>>

VirtioChannel(address) ==
    ChannelNode(<<>>, ChannelTarget(<<"virtio">>, <<"org.qemu.guest_agent.0">>), address)

\* virtio channels without and with an address, two of them on a
\* controller, and the channels of the other target types and of none
ChannelLists ==
    {<<VirtioChannel(Address(<<"virtio-serial">>, c))>> : c \in ControllerNumbers}
    \cup {<<VirtioChannel(<<>>)>>,
          <<VirtioChannel(<<>>), VirtioChannel(<<>>)>>,
          <<VirtioChannel(Address(<<"virtio-serial">>, Numeral(1))), VirtioChannel(<<>>),
            VirtioChannel(Address(<<"virtio-serial">>, Numeral(1)))>>,
          <<VirtioChannel(UsbAddress(<<Numeral(1)[1]>>))>>,
          <<ChannelNode(<<"spicevmc">>, ChannelTarget(<<"virtio">>, <<>>), <<>>)>>,
          <<ChannelNode(<<"spicevmc">>, ChannelTarget(<<"none">>, <<>>), <<>>)>>,
          <<ChannelNode(<<"bogus">>, ChannelTarget(<<"virtio">>, <<>>), <<>>)>>,
          <<ChannelNode(<<>>, ChannelTarget(<<"none">>, <<>>), <<>>)>>,
          <<ChannelNode(<<>>, ChannelTarget(<<"guestfwd">>, <<>>), <<>>)>>,
          <<ChannelNode(<<>>, ChannelTarget(<<"bogus">>, <<>>), <<>>)>>,
          <<ChannelNode(<<>>, ChannelTarget(<<>>, <<>>), <<>>)>>,
          <<ChannelNode(<<>>, <<>>, <<>>)>>}

ChannelDocs == {[BaseDoc EXCEPT !.devices.channel = l] : l \in ChannelLists}

SmartcardNode(mode, address) ==
    [mode |-> mode, certificate |-> <<>>, type |-> <<>>, address |-> address]

\* smartcards without and with an address, two of them, and of every mode
SmartcardLists ==
    {<<SmartcardNode(<<"host">>, Address(<<"ccid">>, c))>> : c \in ControllerNumbers}
    \cup {<<SmartcardNode(<<"host">>, <<>>)>>,
          <<SmartcardNode(<<"host">>, <<>>), SmartcardNode(<<"host">>, <<>>)>>,
          <<SmartcardNode(<<"host">>, Address(<<"ccid">>, Numeral(1))),
            SmartcardNode(<<"host">>, <<>>)>>,
          <<SmartcardNode(<<"host">>, Address(<<"drive">>, <<>>))>>,
          <<SmartcardNode(<<>>, <<>>)>>,
          <<SmartcardNode(<<"bogus">>, <<>>)>>,
          <<SmartcardNode(<<"host-certificates">>, <<>>)>>,
          <<[SmartcardNode(<<"host-certificates">>, <<>>) EXCEPT
                !.certificate = <<"cert1", "cert2", "cert3">>]>>,
          <<SmartcardNode(<<"passthrough">>, <<>>)>>,
          <<[SmartcardNode(<<"passthrough">>, <<>>) EXCEPT !.type = <<"bogus">>]>>,
          <<[SmartcardNode(<<"passthrough">>, <<>>) EXCEPT !.type = <<"spicevmc">>]>>}

SmartcardDocs == {[BaseDoc EXCEPT !.devices.smartcard = l] : l \in SmartcardLists}

InputNode(type, bus, address) == [type |-> <<type>>, bus |-> bus, address |-> address]

\* the texts "1", "2" and "1.2" of a USB port, one that is no port, and none
UsbPorts ==
    {<<>>, <<Numeral(1)[1]>>, <<Numeral(2)[1]>>, <<Numeral(1)[1], Numeral(2)[1]>>,
     <<MinusOneText[1]>>}

InputDocs ==
    {[BaseDoc EXCEPT !.devices.input = <<InputNode("tablet", <<"usb">>, UsbAddress(p))>>] :
        p \in UsbPorts}
    \cup {[BaseDoc EXCEPT !.devices.input = <<InputNode(t, b, a)>>] :
             t \in {"tablet", "mouse"}, b \in {<<>>, <<"ps2">>},
             a \in {<<>>, Address(<<"ccid">>, <<>>)}}

\* two documents whose devices are the same but for their addresses
AddressedDocs ==
    {[BaseDoc EXCEPT !.devices.disk = <<[DiskNode("hd", 0, <<>>) EXCEPT
                                            !.address = Address(<<"drive">>, Numeral(c))]>>] :
        c \in {0, 1}}
    \cup {[BaseDoc EXCEPT !.devices.channel =
               <<VirtioChannel(Address(<<"virtio-serial">>, Numeral(c)))>>] : c \in {0, 1}}
    \cup {[BaseDoc EXCEPT !.devices.smartcard =
               <<SmartcardNode(<<"host">>, Address(<<"ccid">>, Numeral(c)))>>] : c \in {0, 1}}
    \cup {[BaseDoc EXCEPT !.devices.input = <<InputNode("tablet", <<"usb">>, UsbAddress(p))>>] :
             p \in {<<Numeral(1)[1]>>, <<Numeral(2)[1]>>}}

AddressedPairs ==
    {[doc |-> p[1], doc2 |-> p[2], xo |-> BaseXmlopt] :
        p \in {q \in AddressedDocs \X AddressedDocs : q[1] # q[2]}}

\* the kinds of guest: domain type, OS type, init
OsKinds ==
    {[type |-> "qemu", os |-> "hvm", init |-> <<>>],
     [type |-> "xen", os |-> "xen", init |-> <<>>],
     [type |-> "lxc", os |-> "exe", init |-> <<"/sbin/init">>]}

BootChoices == {<<>>} \cup {Boot(n) : n \in 0..MaxBootOrder}

DiskLists ==
    UNION {{[i \in 1..n |-> DiskNode("vd", i - 1, b[i])] : b \in [1..n -> BootChoices]} :
              n \in 0..MaxDisks}

\* disks with and without boot orders, with and without <boot dev>, for every kind of guest
BootDocs ==
    {[BaseDoc EXCEPT !.type = <<k.type>>, !.os.type = <<k.os>>, !.os.init = k.init,
                     !.os.boot = b, !.devices.disk = disks] :
        k \in OsKinds, b \in {<<>>, <<[dev |-> <<"hd">>]>>}, disks \in DiskLists}

\* machine type, graphics and video devices
AbiDocs ==
    {[BaseDoc EXCEPT !.os.machine = m, !.devices.graphics = g, !.devices.video = v,
                     !.devices.disk = d] :
        m \in {<<>>, <<"pc-1.0">>},
        g \in {<<>>, <<GraphicsNode("vnc")>>, <<GraphicsNode("vnc"), GraphicsNode("spice")>>},
        v \in {<<>>, <<VideoNode("cirrus"), VideoNode("qxl")>>},
        d \in {<<>>, <<DiskNode("vd", 0, <<>>)>>}}

BlkioDeviceLists ==
    {<<>>,
     <<[path |-> <<"/dev/sda">>, weight |-> <<0>>]>>,
     <<[path |-> <<"/dev/sda">>, weight |-> <<100>>]>>,
     <<[path |-> <<"/dev/sda">>, weight |-> <<100>>], [path |-> <<"/dev/sdb">>, weight |-> <<0>>]>>,
     <<[path |-> <<"/dev/sda">>, weight |-> <<100>>], [path |-> <<"/dev/sda">>, weight |-> <<200>>]>>,
     <<[path |-> <<>>, weight |-> <<100>>]>>}

BlkioDocs ==
    {[BaseDoc EXCEPT !.blkiotune.weight = w, !.blkiotune.device = dv, !.id = i] :
        w \in {<<>>, <<500>>}, dv \in BlkioDeviceLists, i \in {<<>>, <<7>>}}

\* documents the parser rejects, and a container without init
ErrDocs ==
    {[BaseDoc EXCEPT !.type = <<>>],
     [BaseDoc EXCEPT !.type = <<"bogus">>],
     [BaseDoc EXCEPT !.type = <<"vbox">>],
     [BaseDoc EXCEPT !.name = <<>>],
     [BaseDoc EXCEPT !.uuid = <<>>],
     [BaseDoc EXCEPT !.os.type = <<>>],
     [BaseDoc EXCEPT !.os.type = <<"linux">>, !.type = <<"xen">>],
     [BaseDoc EXCEPT !.os.type = <<>>, !.bootloader = <<"/usr/bin/pygrub">>, !.type = <<"xen">>],
     [BaseDoc EXCEPT !.os.type = <<"exe">>, !.type = <<"lxc">>],
     [BaseDoc EXCEPT !.os.boot = <<[dev |-> <<"cdrom">>], [dev |-> <<"bogus">>]>>],
     [BaseDoc EXCEPT !.os.boot = <<[dev |-> <<"network">>]>>, !.bootloader = <<"/usr/bin/pygrub">>],
     [BaseDoc EXCEPT !.devices.graphics = <<GraphicsNode("bogus")>>],
     [BaseDoc EXCEPT !.devices.graphics = <<GraphicsNode("vnc")>>, !.type = <<"lxc">>,
                     !.os.type = <<"exe">>, !.os.init = <<"/sbin/init">>],
     [BaseDoc EXCEPT !.devices.video = <<[VideoNode("vga") EXCEPT !.vram = <<0>>]>>],
     [BaseDoc EXCEPT !.devices.video = <<[VideoNode("vga") EXCEPT !.primary = <<"yes">>],
                                          [VideoNode("qxl") EXCEPT !.primary = <<"yes">>]>>]}

\* documents with devices, for the post-parse hooks
HookDocs ==
    {[BaseDoc EXCEPT !.devices.disk = d, !.devices.graphics = g] :
        d \in {<<>>, <<DiskNode("vd", 0, <<>>)>>, <<DiskNode("vd", 1, <<>>), DiskNode("vd", 0, <<>>)>>},
        g \in {<<>>, <<GraphicsNode("vnc")>>}}

Hooks ==
    {[domainPostParseCallback |-> dc, devicesPostParseCallback |-> vc, deviceFailAt |-> n,
      hasWideScsiBus |-> FALSE] :
        dc \in {"none", "ok", "fail"}, vc \in {"none", "ok", "fail"}, n \in 0..2}

HookXmlopts ==
    {[BaseXmlopt EXCEPT !.config = h] :
        h \in {x \in Hooks : (x.devicesPostParseCallback = "fail") = (x.deviceFailAt > 0)}}

CapsXmlopts ==
    {BaseXmlopt, [BaseXmlopt EXCEPT !.caps.defaultMachine = NULL]}

\* the same document with two of its devices of a kind in the other order
SwapVariants(d) ==
    {d}
    \cup (IF Len(d.devices.graphics) = 2
          THEN {[d EXCEPT !.devices.graphics = SeqSwap(@, 1, 2)]} ELSE {})
    \cup (IF Len(d.devices.video) = 2
          THEN {[d EXCEPT !.devices.video = SeqSwap(@, 1, 2)]} ELSE {})

\* disks of the types file and block and of every device, with and
\* without a startupPolicy on their <source>
StartupDiskDocs ==
    {[BaseDoc EXCEPT !.devices.disk =
          <<[DiskNode(IF device = <<"floppy">> THEN "fd" ELSE "hd", 0, <<>>)
             EXCEPT !.type = type, !.device = device, !.startupPolicy = policy]>>] :
        type \in {<<>>, <<"file">>, <<"block">>},
        device \in {<<>>, <<"cdrom">>, <<"floppy">>, <<"lun">>},
        policy \in {<<>>, <<"optional">>, <<"default">>, <<"bogus">>}}

\* disks of every device, with target names of every prefix the parser
\* knows and of one it does not, on the bus the name implies or a named one
DiskKindDocs ==
    {[BaseDoc EXCEPT !.devices.disk =
          <<[DiskNode(prefix, 0, <<>>)
             EXCEPT !.device = device, !.target[1].bus = bus]>>] :
        device \in {<<>>, <<"cdrom">>, <<"floppy">>, <<"lun">>},
        prefix \in {"fd", "hd", "sd", "vd", "xvd", "ubd", "xx"},
        bus \in {<<>>, <<"fdc">>, <<"ide">>, <<"virtio">>}}

HostdevNode(mode, type, policy, block) ==
    [mode |-> mode, type |-> <<type>>, managed |-> <<>>,
     source |-> <<[startupPolicy |-> policy, vendor |-> <<>>, product |-> <<>>,
                   block |-> block]>>,
     boot |-> <<>>, address |-> <<>>]

\* host devices of both modes, with and without a startupPolicy on
\* their <source>
StartupHostdevDocs ==
    {[BaseDoc EXCEPT !.devices.hostdev = <<HostdevNode(mode, type, policy, block)>>] :
        mode \in {<<>>, <<"subsystem">>, <<"capabilities">>},
        type \in {"usb", "pci", "storage"},
        policy \in {<<>>, <<"optional">>, <<"bogus">>},
        block \in {<<>>, <<"/dev/sdb">>}}

Scenarios ==
    {[doc |-> d, doc2 |-> d, xo |-> BaseXmlopt] :
        d \in StartupDiskDocs \cup StartupHostdevDocs \cup DiskKindDocs}
    \cup
    {[doc |-> d, doc2 |-> d, xo |-> BaseXmlopt] :
        d \in MemDocs \cup BootDocs \cup BlkioDocs \cup ErrDocs \cup VcpuDocs
              \cup NumaDocs \cup DriveDocs \cup ChannelDocs \cup SmartcardDocs
              \cup InputDocs \cup CputuneDocs}
    \cup AddressedPairs
    \cup UNION {{[doc |-> d, doc2 |-> d2, xo |-> xo] : d2 \in SwapVariants(d), xo \in CapsXmlopts} :
                   d \in AbiDocs}
    \cup {[doc |-> d, doc2 |-> d, xo |-> xo] : d \in HookDocs, xo \in HookXmlopts}
    \cup {[doc |-> d, doc2 |-> d, xo |-> xo] : d \in SeclabelDocs, xo \in SecXmlopts}

FlagSets == {{}, {VIR_DOMAIN_XML_INACTIVE}}

Unparsed == [def |-> <<>>, err |-> "not parsed", calls |-> <<>>]

NoXml == [done |-> FALSE, flags |-> {}, doc |-> <<>>]

\* what a caller of the formatter adds to the flags of the scenario: nothing,
\* a public flag, a private flag
FormatExtraFlags ==
    {{}, {VIR_DOMAIN_XML_UPDATE_CPU}, {VIR_DOMAIN_XML_INTERNAL_STATUS},
     {VIR_DOMAIN_XML_INTERNAL_ACTUAL_NET}, {VIR_DOMAIN_XML_INTERNAL_PCI_ORIG_STATES},
     {VIR_DOMAIN_XML_INTERNAL_ALLOW_BOOT, VIR_DOMAIN_XML_SECURE}}

(***************************************************************************)
(* The registry of domain objects, virDomainObjList: a lockable hash table *)
(* from the UUID string to the domain object, each object lockable and     *)
(* reference counted.  Threads run the operations; every virObjectLock is  *)
(* a step of its own, enabled when the lock is free.  A definition is here *)
(* the record of its uuid, name and id, with a tag ver for the rest of its *)
(* content; an optional definition is <<>> or <<def>>.                     *)
(***************************************************************************)
MaxThreads == 2

\* the number of objects virDomainObjNew can allocate
MaxObjs == 2

\* the number of operations the threads start
MaxOps == 4

Threads == 1..MaxThreads

Objs == 1..MaxObjs

UUIDs == {"u1", "u2"}

Names == {"a", "b"}

\* the order in which virHashSearch visits the table
HashOrder == <<"u1", "u2">>

VIR_DOMAIN_OBJ_LIST_ADD_LIVE == "ADD_LIVE"

VIR_DOMAIN_OBJ_LIST_ADD_CHECK_LIVE == "ADD_CHECK_LIVE"

\* the definitions handed to Add: inactive (id -1) or of a running guest
Defs == [uuid : UUIDs, name : Names, id : {-1, 1}, ver : {1, 2}]

\* def->id != -1
virDomainObjIsActive(obj) == obj.def[1].id # -1

\* an object that is not allocated
NoObj == [def |-> <<>>, newDef |-> <<>>, refs |-> 0]

\* the new object: one reference, no definition yet
virDomainObjNew == [def |-> <<>>, newDef |-> <<>>, refs |-> 1]

\* virDomainObjAssignDef were it to shadow the current definition on every
\* live assignment to an inactive domain
AssignDefShadowingAlways(domain, def, live, oldDef) ==
    IF virDomainObjIsActive(domain)
    THEN [domain |-> [domain EXCEPT !.newDef = <<def>>],
          oldDef |-> IF oldDef THEN domain.newDef ELSE <<>>,
          freed |-> IF oldDef THEN <<>> ELSE domain.newDef]
    ELSE IF live
    THEN [domain |-> [domain EXCEPT !.newDef = domain.def, !.def = <<def>>],
          oldDef |-> <<>>, freed |-> domain.newDef]
    ELSE [domain |-> [domain EXCEPT !.def = <<def>>],
          oldDef |-> IF oldDef THEN domain.def ELSE <<>>,
          freed |-> IF oldDef THEN <<>> ELSE domain.def]

\* the domain after the call, the definition handed back through oldDef and
\* the definition freed
virDomainObjAssignDef(domain, def, live, oldDef) ==
    IF virDomainObjIsActive(domain)
    THEN [domain |-> [domain EXCEPT !.newDef = <<def>>],
          oldDef |-> IF oldDef THEN domain.newDef ELSE <<>>,
          freed |-> IF oldDef THEN <<>> ELSE domain.newDef]
    ELSE IF live
    THEN IF domain.def # <<>> /\ domain.newDef = <<>>
         THEN [domain |-> [domain EXCEPT !.newDef = domain.def, !.def = <<def>>],
               oldDef |-> <<>>, freed |-> <<>>]
         ELSE [domain |-> [domain EXCEPT !.def = <<def>>],
               oldDef |-> <<>>, freed |-> domain.def]
    ELSE [domain |-> [domain EXCEPT !.def = <<def>>],
          oldDef |-> IF oldDef THEN domain.def ELSE <<>>,
          freed |-> IF oldDef THEN <<>> ELSE domain.def]

\* the callbacks of virHashSearch: does the object match
virDomainObjListSearchID(obj, id) ==
    virDomainObjIsActive(obj) /\ obj.def[1].id = id

\* the name callback were it to match no object
SearchNameMatchingNone(obj, name) == FALSE

virDomainObjListSearchName(obj, name) ==
    obj.def[1].name = name

\* the first entry of the table at or after position c of the visit, 0 when none
NextEntry(table, c) ==
    IF \E i \in c..Len(HashOrder) : table[HashOrder[i]] # 0
    THEN CHOOSE i \in c..Len(HashOrder) :
             /\ table[HashOrder[i]] # 0
             /\ \A j \in c..(i - 1) : table[HashOrder[j]] = 0
    ELSE 0

virObjectRef(obj) == [obj EXCEPT !.refs = @ + 1]

\* the object is disposed of when its last reference goes (refs 0: its
\* memory, freed, keeps what it held)
virObjectUnref(obj) == [obj EXCEPT !.refs = IF @ > 0 THEN @ - 1 ELSE 0]

\* virHashRemoveEntry: the entry of the key goes, and virDomainObjListDataFree
\* drops the reference the table held on its object
virHashRemoveEntry(table, objects, key) ==
    IF table[key] = 0 THEN [objs |-> table, domains |-> objects]
    ELSE [objs |-> [table EXCEPT ![key] = 0],
          domains |-> [objects EXCEPT ![table[key]] = virObjectUnref(@)]]

\* the locals of a thread that runs no operation; held is the object whose
\* lock the caller holds (0: none), ret what the last operation returned
Idle(held, ret) ==
    [op |-> "none", id |-> 0, uuid |-> NULL, name |-> NULL, cur |-> 0, vm |-> 0, why |-> "none",
     held |-> held, ret |-> ret]

RegistryInit ==
    /\ objs = [u \in UUIDs |-> 0]
    /\ domains = [o \in Objs |-> NoObj]
    /\ lockOwner = [doms |-> 0, obj |-> [o \in Objs |-> 0]]
    /\ tpc = [t \in Threads |-> "idle"]
    /\ tloc = [t \in Threads |-> Idle(0, "none")]
    /\ hist = <<>>
    /\ nops = 0

\* the registry while the parser scenario runs
RegistryIdle == RegistryInit

(***************************************************************************)
(* The definitions of a domain object a driver holds.  A definition is the *)
(* record of the object it is (obj, its identity) and of its content       *)
(* (val); def is the current definition, newDef the pending one (<<>> when *)
(* there is none), ndefs the number of definition objects there are.       *)
(***************************************************************************)
VIR_DOMAIN_AFFECT_LIVE == "AFFECT_LIVE"

VIR_DOMAIN_AFFECT_CONFIG == "AFFECT_CONFIG"

\* the value a call returned, computed once
TheOne(S) == CHOOSE x \in S : TRUE

\* def->id != -1
DomainIsActive(domain) == domain.def[1].val.id # -1

\* the pending definition becomes a copy of the current one, if the domain
\* is persistent, has none, and is active or live is set
virDomainObjSetDefTransient(xo, domain, live) ==
    IF ~DomainIsActive(domain) /\ ~live THEN [ret |-> 0, domain |-> domain]
    ELSE IF ~domain.persistent THEN [ret |-> 0, domain |-> domain]
    ELSE IF domain.newDef # <<>> THEN [ret |-> 0, domain |-> domain]
    ELSE TheOne({IF c.def = <<>> THEN [ret |-> -1, domain |-> domain]
                 ELSE [ret |-> 0,
                       domain |-> [domain EXCEPT
                                      !.newDef = <<[obj |-> domain.ndefs + 1,
                                                    val |-> c.def[1]]>>,
                                      !.ndefs = @ + 1]] :
                    c \in {virDomainDefCopy(domain.def[1].val, xo, FALSE)}})

\* the definition that is returned (<<>> for NULL) and the domain after
\* the call
virDomainObjGetPersistentDef(xo, domain) ==
    TheOne({IF r.ret < 0 THEN [ret |-> <<>>, domain |-> r.domain]
            ELSE IF r.domain.newDef # <<>>
            THEN [ret |-> r.domain.newDef, domain |-> r.domain]
            ELSE [ret |-> r.domain.def, domain |-> r.domain] :
               r \in {virDomainObjSetDefTransient(xo, domain, FALSE)}})

\* the flags as the helper leaves them, the persistent definition it
\* hands back (<<>> when it hands none back) and the domain after the call
virDomainLiveConfigHelperMethod(xo, dom, fl0) ==
    LET isActive == DomainIsActive(dom)
        fl == IF fl0 \cap {VIR_DOMAIN_AFFECT_LIVE, VIR_DOMAIN_AFFECT_CONFIG} = {}
              THEN fl0 \cup {IF isActive THEN VIR_DOMAIN_AFFECT_LIVE
                             ELSE VIR_DOMAIN_AFFECT_CONFIG}
              ELSE fl0
    IN  IF ~isActive /\ VIR_DOMAIN_AFFECT_LIVE \in fl
        THEN [ret |-> -1, flags |-> fl, persistentDef |-> <<>>, domain |-> dom]
        ELSE IF VIR_DOMAIN_AFFECT_CONFIG \in fl
        THEN IF ~dom.persistent
             THEN [ret |-> -1, flags |-> fl, persistentDef |-> <<>>, domain |-> dom]
             ELSE TheOne({IF g.ret = <<>>
                          THEN [ret |-> -1, flags |-> fl, persistentDef |-> <<>>,
                                domain |-> g.domain]
                          ELSE [ret |-> 0, flags |-> fl, persistentDef |-> g.ret,
                                domain |-> g.domain] :
                             g \in {virDomainObjGetPersistentDef(xo, dom)}})
        ELSE [ret |-> 0, flags |-> fl, persistentDef |-> <<>>, domain |-> dom]

(***************************************************************************)
(* The leases of a definition.  A lease is the record of its key and of    *)
(* its lockspace, which is NULL when it has none.                          *)
(***************************************************************************)
\* the index (from 0) of the first lease at or after position i (from 1)
\* that the loop of virDomainLeaseIndex returns, -1 when it returns none
RECURSIVE LeaseIndexFrom(_, _, _)
LeaseIndexFrom(leases, lease, i) ==
    IF i > Len(leases) THEN -1
    ELSE IF /\ leases[i].lockspace # NULL /\ lease.lockspace # NULL
            /\ leases[i].lockspace # lease.lockspace
    THEN LeaseIndexFrom(leases, lease, i + 1)
    ELSE IF leases[i].lockspace # NULL \/ lease.lockspace # NULL
    THEN LeaseIndexFrom(leases, lease, i + 1)
    ELSE IF leases[i].key = lease.key THEN i - 1
    ELSE LeaseIndexFrom(leases, lease, i + 1)

virDomainLeaseIndex(def, lease) == LeaseIndexFrom(def.leases, lease, 1)

\* the lease goes to the end of the list
virDomainLeaseInsert(def, lease) == [def EXCEPT !.leases = Append(@, lease)]

\* the lease at index i (from 0) leaves the list and is returned
virDomainLeaseRemoveAt(def, i) ==
    [def |-> [def EXCEPT !.leases = [j \in 1..(Len(@) - 1) |->
                                        IF j <= i THEN @[j] ELSE @[j + 1]]],
     lease |-> <<def.leases[i + 1]>>]

\* the lease virDomainLeaseIndex finds leaves the list; NULL (<<>>) when
\* it finds none
virDomainLeaseRemove(def, lease) ==
    IF virDomainLeaseIndex(def, lease) < 0 THEN [def |-> def, lease |-> <<>>]
    ELSE virDomainLeaseRemoveAt(def, virDomainLeaseIndex(def, lease))

(***************************************************************************)
(* Specification of the operations a driver runs on a definition it holds: *)
(* the iteration over the devices with a visitor of its own.  The          *)
(* definition is one a driver has built: only its device lists matter.     *)
(***************************************************************************)
\* the most devices in a list
MaxDevices == 2

\* a device of which only the address record matters
PlainDevice == [info |-> DeviceInfoAlloc]

ConsoleDevice(targetType) == [targetType |-> targetType, info |-> DeviceInfoAlloc]

\* n devices in a list
Devices(n) == [i \in 1..n |-> PlainDevice]

\* no console, one and two, of the targets none, serial and virtio
ConsoleLists ==
    LET targets == {TypeFromString(virDomainChrConsoleTarget, t) :
                       t \in {"none", "serial", "virtio"}}
    IN  {<<>>} \cup {<<ConsoleDevice(a)>> : a \in targets}
        \cup {<<ConsoleDevice(a), ConsoleDevice(b)>> : a \in targets, b \in targets}

\* definitions with n devices in every list, with and without the watchdog,
\* the memory balloon and the RNG, of a fully virtualized guest and of a
\* paravirtualized one
DeviceDefs ==
    {[DefAlloc EXCEPT !.os.type = ostype,
                      !.disks = Devices(n), !.nets = Devices(n), !.sounds = Devices(n),
                      !.hostdevs = Devices(n), !.videos = Devices(n),
                      !.controllers = Devices(n), !.smartcards = Devices(n),
                      !.serials = Devices(n), !.parallels = Devices(n),
                      !.channels = Devices(n), !.consoles = consoles,
                      !.inputs = Devices(n), !.fss = Devices(n),
                      !.watchdog = Devices(single), !.memballoon = Devices(single),
                      !.rng = Devices(single), !.hubs = Devices(n)] :
        ostype \in {"hvm", "xen"}, n \in 0..MaxDevices, single \in 0..1,
        consoles \in ConsoleLists}

NoOp == [op |-> "none", all |-> FALSE, failAt |-> 0, ret |-> 0, calls |-> <<>>]

\* no domain object
NoDomain == [def |-> <<>>, newDef |-> <<>>, persistent |-> FALSE, ndefs |-> 0]

DevicesInit ==
    /\ ddef \in DeviceDefs
    /\ dop = NoOp
    /\ dobj = NoDomain

\* the definition while another scenario runs
DevicesIdle ==
    /\ ddef = DefAlloc
    /\ dop = NoOp
    /\ dobj = NoDomain

(***************************************************************************)
(* Specification of the lease operations of a driver on a definition it    *)
(* holds: only the leases of the definition matter.                        *)
(***************************************************************************)
\* the most leases of a definition
MaxLeases == 2

Leases == [key : {"k1", "k2"}, lockspace : {NULL, "ls1", "ls2"}]

LeaseLists == UNION {[1..n -> Leases] : n \in 0..MaxLeases}

LeaseDefs == {[DefAlloc EXCEPT !.leases = l] : l \in LeaseLists}

LeasesInit ==
    /\ ddef \in LeaseDefs
    /\ dop = NoOp
    /\ dobj = NoDomain

(***************************************************************************)
(* Specification of the operations of a driver on the definitions of a     *)
(* domain object it holds.  The definitions are those the parser gives     *)
(* for a few documents, as they are or with the id of a running guest.     *)
(***************************************************************************)
ObjDocs ==
    {BaseDoc,
     [BaseDoc EXCEPT !.devices.disk = <<DiskNode("vd", 0, <<>>)>>],
     [BaseDoc EXCEPT !.blkiotune.device = <<[path |-> <<"/dev/sda">>, weight |-> <<0>>]>>],
     [BaseDoc EXCEPT !.devices.channel = <<ChannelNode(<<>>, <<>>, <<>>)>>]}

\* the definitions of the documents the parser accepts
ObjDefs ==
    {virDomainDefParseXML(d, {}, BaseXmlopt).def[1] :
        d \in {x \in ObjDocs : virDomainDefParseXML(x, {}, BaseXmlopt).def # <<>>}}

\* a domain that is inactive or runs, persistent or transient, without a
\* pending definition or with one
DomainObjs ==
    {[def |-> <<[obj |-> 1, val |-> [d EXCEPT !.id = id]]>>,
      newDef |-> IF pending THEN <<[obj |-> 2, val |-> d]>> ELSE <<>>,
      persistent |-> persistent,
      ndefs |-> IF pending THEN 2 ELSE 1] :
        d \in ObjDefs, id \in {-1, 1}, persistent \in BOOLEAN, pending \in BOOLEAN}

DomainObjInit ==
    /\ ddef = DefAlloc
    /\ dop = NoOp
    /\ dobj \in DomainObjs

(***************************************************************************)
(* Specification of the parser, the formatter and the ABI checker: a       *)
(* caller parses two documents, and then copies, formats, parses again and *)
(* compares the definitions it got.                                        *)
(***************************************************************************)
ParseInit ==
    /\ \E sc \in Scenarios : doc = sc.doc /\ doc2 = sc.doc2 /\ xmlopt = sc.xo
    /\ flags \in FlagSets
    /\ res = Unparsed
    /\ res2 = Unparsed
    /\ copy = Unparsed
    /\ formatted = NoXml
    /\ reparsed = Unparsed
    /\ abi = "none"
    /\ abiArgs = <<>>
    /\ abiBack = "none"
    /\ synth = <<>>
    /\ ppc = "start"
    /\ RegistryIdle
    /\ DevicesIdle

\* virDomainDefParseString on the first document
DomainDefParseString ==
    /\ ppc = "start"
    /\ res' = virDomainDefParseXML(doc, flags, xmlopt)
    /\ ppc' = "one"
    /\ UNCHANGED <<doc, doc2, flags, xmlopt, res2, copy, formatted, reparsed, abi, abiArgs,
                 abiBack, synth>>
    /\ UNCHANGED <<registryVars, deviceVars>>

\* virDomainDefParseString on the second document
DomainDefParseString2 ==
    /\ ppc = "one"
    /\ res2' = virDomainDefParseXML(doc2, flags, xmlopt)
    /\ ppc' = "parsed"
    /\ UNCHANGED <<doc, doc2, flags, xmlopt, res, copy, formatted, reparsed, abi, abiArgs,
                 abiBack, synth>>
    /\ UNCHANGED <<registryVars, deviceVars>>

Running == ppc = "parsed" /\ abi # "crash"

DomainDefCopy ==
    /\ Running
    /\ res.def # <<>>
    /\ copy = Unparsed
    /\ \E migratable \in BOOLEAN : copy' = virDomainDefCopy(res.def[1], xmlopt, migratable)
    /\ UNCHANGED <<doc, doc2, flags, xmlopt, res, res2, formatted, reparsed, abi, abiArgs,
                 abiBack, synth, ppc>>
    /\ UNCHANGED <<registryVars, deviceVars>>

DomainDefFormat ==
    /\ Running
    /\ res.def # <<>>
    /\ ~formatted.done
    /\ \E extra \in FormatExtraFlags :
           formatted' = [done |-> TRUE, flags |-> flags \cup extra,
                         doc |-> virDomainDefFormat(res.def[1], flags \cup extra)]
    /\ UNCHANGED <<doc, doc2, flags, xmlopt, res, res2, copy, reparsed, abi, abiArgs,
                 abiBack, synth, ppc>>
    /\ UNCHANGED <<registryVars, deviceVars>>

\* virDomainDefParseString on the document the formatter wrote, under the same flags
DomainDefParseFormatted ==
    /\ Running
    /\ formatted.doc # <<>>
    /\ formatted.flags = flags
    /\ reparsed = Unparsed
    /\ reparsed' = virDomainDefParseXML(formatted.doc[1], flags, xmlopt)
    /\ UNCHANGED <<doc, doc2, flags, xmlopt, res, res2, copy, formatted, abi, abiArgs,
                 abiBack, synth, ppc>>
    /\ UNCHANGED <<registryVars, deviceVars>>

Operand(which) ==
    CASE which = "res" -> res.def
      [] which = "res2" -> res2.def
      [] which = "copy" -> copy.def
      [] OTHER -> reparsed.def

DomainDefCheckABIStability ==
    /\ Running
    /\ \E pair \in {<<"res", "res">>, <<"res", "res2">>, <<"res", "copy">>, <<"res", "reparsed">>} :
          /\ Operand(pair[1]) # <<>>
          /\ Operand(pair[2]) # <<>>
          /\ abiArgs' = pair
          /\ abi' \in virDomainDefCheckABIStability(Operand(pair[1])[1], Operand(pair[2])[1])
    /\ UNCHANGED <<doc, doc2, flags, xmlopt, res, res2, copy, formatted, reparsed,
                   abiBack, synth, ppc>>
    /\ UNCHANGED <<registryVars, deviceVars>>

\* a caller that has parsed and compared, and nothing else, ends by
\* comparing the same two definitions the other way round
DomainDefCheckABIStabilityBack ==
    /\ Running
    /\ abiArgs # <<>>
    /\ copy = Unparsed
    /\ ~formatted.done
    /\ abiBack' \in virDomainDefCheckABIStability(Operand(abiArgs[2])[1], Operand(abiArgs[1])[1])
    /\ ppc' = "done"
    /\ UNCHANGED <<doc, doc2, flags, xmlopt, res, res2, copy, formatted, reparsed, abi, abiArgs,
                   synth>>
    /\ UNCHANGED <<registryVars, deviceVars>>

\* a caller that has parsed, and nothing else, ends by running
\* virDomainDefAddImplicitControllers on the definition the parser returned,
\* on which the parser has run it already
DomainDefAddImplicitControllers ==
    /\ Running
    /\ res.def # <<>>
    /\ copy = Unparsed
    /\ ~formatted.done
    /\ abiArgs = <<>>
    /\ synth' = <<virDomainDefAddImplicitControllers(res.def[1])>>
    /\ ppc' = "done"
    /\ UNCHANGED <<doc, doc2, flags, xmlopt, res, res2, copy, formatted, reparsed, abi, abiArgs,
                   abiBack>>
    /\ UNCHANGED <<registryVars, deviceVars>>

ParseNext ==
    \/ DomainDefParseString
    \/ DomainDefParseString2
    \/ DomainDefCopy
    \/ DomainDefFormat
    \/ DomainDefParseFormatted
    \/ DomainDefCheckABIStability
    \/ DomainDefCheckABIStabilityBack
    \/ DomainDefAddImplicitControllers

SpecParse == ParseInit /\ [][ParseNext]_vars

(***************************************************************************)
(* Properties of the parser, the formatter and the ABI checker.            *)
(***************************************************************************)
Parsed(r) == r.def # <<>>

\* the positions of the calls of a hook in a log
Positions(calls, hook) == {i \in 1..Len(calls) : calls[i].hook = hook}

\* every call of hook a comes before every call of hook b
Before(calls, a, b) ==
    \A i \in Positions(calls, a), j \in Positions(calls, b) : i < j

\* the two definitions just compared differ in the order of their two graphics devices only
GraphicsSwapped ==
    /\ abiArgs = <<"res", "res2">>
    /\ Parsed(res)
    /\ Parsed(res2)
    /\ Len(res.def[1].graphics) = 2
    /\ res.def[1].graphics[1] # res.def[1].graphics[2]
    /\ res2.def[1] = [res.def[1] EXCEPT !.graphics = SeqSwap(@, 1, 2)]

DeviceCount(def) ==
    Len(def.disks) + Len(def.controllers) + Len(def.smartcards) + Len(def.channels)
    + Len(def.inputs)
    + Len(def.graphics) + Len(def.videos)

DevicesCallbackSet == xmlopt.config.devicesPostParseCallback # "none"

\* C2, as stated: the per-device callback is invoked for every device before
\* the whole-definition callback, and the internal pass runs after both.
C2_DevicesBeforeDomain ==
    ppc # "start" =>
        /\ Before(res.calls, "device", "domain")
        /\ Before(res.calls, "device", "internal")
        /\ Before(res.calls, "domain", "internal")
        /\ (Parsed(res) /\ DevicesCallbackSet) =>
               Cardinality(Positions(res.calls, "device")) = DeviceCount(res.def[1])

\* the calls of the per-device callback that the iteration over the devices makes
IteratedCalls(def) ==
    [i \in 1..Len(DeviceInfoIterateOrder(def, TRUE)) |->
        Call("device", DeviceInfoIterateOrder(def, TRUE)[i].kind, DeviceInfoIterateOrder(def, TRUE)[i].idx)]

\* C2, amended: the whole-definition callback is invoked first, then the
\* per-device callback for every device the device iteration visits (the
\* graphics devices are not visited), in the order of the iteration, and the
\* internal pass runs only after both.
C2_DomainBeforeDevices ==
    ppc # "start" =>
        /\ Before(res.calls, "domain", "device")
        /\ Before(res.calls, "device", "internal")
        /\ Before(res.calls, "domain", "internal")
        /\ (Parsed(res) /\ DevicesCallbackSet) =>
               SelectSeq(res.calls, LAMBDA c : c.hook = "device") = IteratedCalls(res.def[1])

C2_AllHooksRan ==
    /\ Parsed(res)
    /\ Positions(res.calls, "domain") # {}
    /\ Cardinality(Positions(res.calls, "device")) >= 2
    /\ Positions(res.calls, "internal") = {Len(res.calls)}
    /\ Len(res.def[1].graphics) > 0

\* the disks of a definition that carry a boot order
BootDisks(def) == {i \in 1..Len(def.disks) : def.disks[i].info.bootIndex > 0}

\* C3: in every accepted definition that uses per-device boot ordering the
\* boot orders are exactly 1..n, n the number of devices that carry one,
\* whatever the OS kind.
C3_BootOrdersContiguous ==
    (ppc # "start" /\ Parsed(res)) =>
        {res.def[1].disks[i].info.bootIndex : i \in BootDisks(res.def[1])}
            = 1..Cardinality(BootDisks(res.def[1]))

\* C4: a current balloon less than 4096 KiB above the maximum is accepted and
\* clamped to the maximum, one 4096 KiB or more above it is rejected, and
\* every accepted definition has current balloon <= maximum balloon.
C4_BalloonTolerance ==
    (/\ ppc # "start"
     /\ doc.memory # <<>>
     /\ doc.currentMemory # <<>>
     /\ res.err \in {NoErr, "current memory exceeds maximum"}) =>
        /\ (/\ doc.currentMemory[1] > doc.memory[1]
            /\ doc.currentMemory[1] - doc.memory[1] < 4096) =>
               /\ Parsed(res)
               /\ res.def[1].mem.cur_balloon = res.def[1].mem.max_balloon
        /\ (doc.currentMemory[1] - doc.memory[1] >= 4096) => ~Parsed(res)
        /\ Parsed(res) => res.def[1].mem.cur_balloon <= res.def[1].mem.max_balloon

\* C8: CheckABIStability(d, d) returns true for every definition d the parser accepts.
C8_Reflexive ==
    abiArgs = <<"res", "res">> => abi = "true"

\* C9: parsing what Format(d, f) wrote, under the same flags f, yields a
\* definition equal to d field for field (the model has none of the
\* flag-gated fields: alias, auto-assigned ports, PTY path).
C9_RoundTrip ==
    reparsed # Unparsed => (Parsed(reparsed) /\ reparsed.def[1] = res.def[1])

\* rules of the parser, read off the document
ViolatesARule(d) ==
    \/ d.type = <<>>
    \/ d.name = <<>>
    \/ d.memory = <<>>
    \/ d.os.type = <<>> /\ d.bootloader = <<>>
    \/ d.os.type = <<"exe">> /\ d.os.init = <<>>
    \/ \E i \in 1..Len(d.blkiotune.device) : d.blkiotune.device[i].path = <<>>
    \/ \E i, j \in 1..Len(d.blkiotune.device) :
           i # j /\ d.blkiotune.device[i].path = d.blkiotune.device[j].path
    \/ \E i \in 1..Len(d.devices.graphics) :
           TypeFromString(virDomainGraphics, d.devices.graphics[i].type[1]) < 0
    \/ \E i, j \in 1..Len(d.devices.video) :
           i # j /\ d.devices.video[i].primary = <<"yes">> /\ d.devices.video[j].primary = <<"yes">>
    \/ \E i \in 1..Len(d.devices.disk) :
           d.devices.disk[i].boot # <<>> /\ d.devices.disk[i].boot[1].order[1] <= 0
    \/ /\ d.os.type = <<"hvm">>
       /\ d.os.boot # <<>>
       /\ \E i \in 1..Len(d.devices.disk) : d.devices.disk[i].boot # <<>>
    \/ \E i \in 1..Len(d.devices.smartcard) : d.devices.smartcard[i].mode = <<>>
    \/ \E i \in 1..Len(d.devices.channel) :
           d.devices.channel[i].target = <<>> \/ d.devices.channel[i].target[1].type = <<>>

\* a callback that the driver set to fail has been called
CallbackFailed(calls) ==
    \/ /\ xmlopt.config.domainPostParseCallback = "fail"
       /\ Positions(calls, "domain") # {}
    \/ /\ xmlopt.config.devicesPostParseCallback = "fail"
       /\ Cardinality(Positions(calls, "device")) >= xmlopt.config.deviceFailAt

\* the definition has every device of the document and went through the last pass
Complete(def, calls, d) ==
    /\ Positions(calls, "internal") = {Len(calls)}
    /\ Len(def.disks) = Len(d.devices.disk)
    /\ Len(def.graphics) = Len(d.devices.graphics)
    /\ Len(def.videos) >= Len(d.devices.video)
    /\ Len(def.controllers) >= Len(d.devices.controller)
    /\ Len(def.smartcards) = Len(d.devices.smartcard)
    /\ Len(def.channels) = Len(d.devices.channel)

\* C10: when a validation rule fails or a callback of the driver fails, the
\* parse returns an error and no definition; a definition is returned only
\* when no check and no callback failed, and then it is a complete one.
C10_ErrorOrDefinition ==
    ppc # "start" =>
        /\ Parsed(res) <=> res.err = NoErr
        /\ ViolatesARule(doc) => (~Parsed(res) /\ res.err # NoErr)
        /\ CallbackFailed(res.calls) => (~Parsed(res) /\ res.err # NoErr)
        /\ Parsed(res) => Complete(res.def[1], res.calls, doc)

C10_DeviceCallbackFailed ==
    /\ ppc # "start"
    /\ xmlopt.config.devicesPostParseCallback = "fail"
    /\ xmlopt.config.domainPostParseCallback = "ok"
    /\ Cardinality(Positions(res.calls, "device")) = 2
    /\ ~Parsed(res)
    /\ res.err = "devicesPostParseCallback failed"

\* the three internal status flags of the formatter
InternalStatusFlags ==
    {VIR_DOMAIN_XML_INTERNAL_STATUS, VIR_DOMAIN_XML_INTERNAL_ACTUAL_NET,
     VIR_DOMAIN_XML_INTERNAL_PCI_ORIG_STATES}

\* C11: the three internal status flags share no bit with any public
\* formatting flag, and the public formatter, called with any flag outside the
\* public set, fails without producing output (so that it never writes an
\* internal-only element).
C11_InternalFlagsKeptOut ==
    /\ FlagBits(InternalStatusFlags) \cap FlagBits(DUMPXML_FLAGS) = {}
    /\ Cardinality(FlagBits(InternalStatusFlags)) = 3
    /\ formatted.done =>
           /\ (FlagBits(formatted.flags) \ FlagBits(DUMPXML_FLAGS) # {}) => formatted.doc = <<>>
           /\ formatted.doc # <<>> => FlagBits(formatted.flags) \cap FlagBits(InternalStatusFlags) = {}

\* the public formatter was called with an internal status flag and wrote nothing
C11_InternalFlagRefused ==
    /\ formatted.done
    /\ formatted.flags \cap InternalStatusFlags # {}
    /\ Parsed(res)
    /\ formatted.doc = <<>>

\* the results of the parser: of the two documents, of the copy, of the
\* document the formatter wrote
ParseResults == {res, res2, copy, reparsed}

TopologySet(def) == def.cpu # <<>> /\ def.cpu[1].sockets # 0

\* C12: every definition the parser accepts has 1 <= vcpus <= maxvcpus <= 65535
\* and, when it has a CPU topology, maxvcpus <= sockets * cores * threads.
C12_VcpuBounds ==
    \A r \in ParseResults :
        Parsed(r) =>
            /\ 1 <= r.def[1].vcpus
            /\ r.def[1].vcpus <= r.def[1].maxvcpus
            /\ r.def[1].maxvcpus <= 65535
            /\ TopologySet(r.def[1]) =>
                   r.def[1].maxvcpus <= r.def[1].cpu[1].sockets * r.def[1].cpu[1].cores
                                            * r.def[1].cpu[1].threads

\* a document with a topology and fewer current vCPUs than the maximum was accepted
C12_TopologyAccepted ==
    /\ Parsed(res)
    /\ doc.vcpu # <<>>
    /\ doc.vcpu[1].current # <<>>
    /\ TopologySet(res.def[1])
    /\ res.def[1].vcpus < res.def[1].maxvcpus

\* the <memory> child of the one <numatune> of the first document, if it is
\* its only child
NumatuneMemory ==
    IF Len(doc.numatune) = 1 /\ Len(doc.numatune[1]) = 1
       /\ doc.numatune[1][1].name = "memory"
    THEN <<doc.numatune[1][1]>> ELSE <<>>

NoPlacementAttribute ==
    ppc # "start" /\ Parsed(res) /\ NumatuneMemory # <<>>
    /\ NumatuneMemory[1].placement = <<>>

\* the memory placement that is the placement of <vcpu>
PlacementOfVcpu(def) ==
    IF def.placement_mode = VIR_DOMAIN_CPU_PLACEMENT_MODE_STATIC
    THEN VIR_NUMA_TUNE_MEM_PLACEMENT_MODE_STATIC
    ELSE VIR_NUMA_TUNE_MEM_PLACEMENT_MODE_AUTO

\* C17 as stated: a <memory> element without a placement attribute gets the
\* placement of <vcpu>, static for static and auto for auto.
C17_PlacementInherited ==
    NoPlacementAttribute =>
        res.def[1].numatune.memory.placement_mode = PlacementOfVcpu(res.def[1])

\* C17, amended: a <memory> element with neither a placement attribute nor a
\* nodeset gets the placement of <vcpu>, static for static and auto for auto;
\* with a nodeset and no placement attribute the placement is static.
C17_PlacementDefault ==
    NoPlacementAttribute =>
        res.def[1].numatune.memory.placement_mode =
            IF NumatuneMemory[1].nodeset = <<>>
            THEN PlacementOfVcpu(res.def[1])
            ELSE VIR_NUMA_TUNE_MEM_PLACEMENT_MODE_STATIC

\* a <memory> element with neither attribute was accepted under an auto <vcpu>
C17_InheritedAuto ==
    /\ NoPlacementAttribute
    /\ NumatuneMemory[1].nodeset = <<>>
    /\ doc.vcpu # <<>>
    /\ doc.vcpu[1].placement = <<"auto">>
    /\ res.def[1].numatune.memory.placement_mode = VIR_NUMA_TUNE_MEM_PLACEMENT_MODE_AUTO

\* C18: in every accepted definition static memory placement has a node mask
\* and auto memory placement has none: static without a nodeset is rejected,
\* and a nodeset given with auto placement is not kept.
C18_MaskMatchesPlacement ==
    \A r \in ParseResults :
        Parsed(r) =>
            /\ r.def[1].numatune.memory.placement_mode = VIR_NUMA_TUNE_MEM_PLACEMENT_MODE_STATIC
                   => /\ r.def[1].numatune.memory.nodemask # <<>>
                      /\ ~r.def[1].numatune.memory.nodemask[1].freed
            /\ r.def[1].numatune.memory.placement_mode = VIR_NUMA_TUNE_MEM_PLACEMENT_MODE_AUTO
                   => r.def[1].numatune.memory.nodemask = <<>>

\* the first document has <boot dev> elements in <os> and a disk with a <boot order>
BothBootKinds ==
    /\ doc.os.boot # <<>>
    /\ \E i \in 1..Len(doc.devices.disk) : doc.devices.disk[i].boot # <<>>

\* C19: no accepted definition has both OS boot devices and per-device boot
\* orders, and a document that contains both is rejected.
C19_BootKindsExclusive ==
    /\ \A r \in ParseResults :
           Parsed(r) => (r.def[1].os.bootDevs = <<>> \/ BootDisks(r.def[1]) = {})
    /\ (ppc # "start" /\ BothBootKinds) => ~Parsed(res)

\* the first document has one label, without a model, of type none, or
\* dynamic (the default type) without a base label under the inactive flag
LegacyLabel ==
    /\ Len(doc.seclabel) = 1
    /\ doc.seclabel[1].model = <<>>
    /\ \/ doc.seclabel[1].type = <<"none">>
       \/ /\ doc.seclabel[1].type \in {<<>>, <<"dynamic">>}
          /\ doc.seclabel[1].baselabel = <<>>
          /\ VIR_DOMAIN_XML_INACTIVE \in flags

\* C20: on a host with security models a document whose one label has no
\* model is accepted with the first model of the host when the label is of
\* type none, or dynamic without a base label under the inactive flag; and a
\* document with more than one label, one of them without a model, is
\* rejected.
C20_LegacyModel ==
    (ppc # "start" /\ doc \in SeclabelDocs) =>
        /\ (LegacyLabel /\ Len(xmlopt.caps.secModels) > 0) =>
               /\ Parsed(res)
               /\ res.def[1].seclabels[1].model = xmlopt.caps.secModels[1]
        /\ (Len(doc.seclabel) > 1 /\ \E i \in 1..Len(doc.seclabel) : doc.seclabel[i].model = <<>>)
               => ~Parsed(res)

\* a dynamic label without model and base label took the model of the host
C20_ModelInherited ==
    /\ ppc # "start"
    /\ LegacyLabel
    /\ doc.seclabel[1].type # <<"none">>
    /\ Parsed(res)
    /\ res.def[1].seclabels[1].model = "selinux"

\* the definition has a controller of this type and index
HasController(def, type, idx) ==
    \E i \in 1..Len(def.controllers) :
        def.controllers[i].type = type /\ def.controllers[i].idx = idx

\* C13: running the implicit-controller synthesis pass on a definition it
\* has already run on adds no controller: the controller list is the same
\* after the second run as after the first.
C13_SynthesisIdempotent ==
    synth # <<>> => synth[1].controllers = res.def[1].controllers

\* the pass ran again on a definition whose CCID and virtio-serial
\* controllers it had added itself
C13_SynthesizedTwice ==
    /\ synth # <<>>
    /\ doc.devices.controller = <<>>
    /\ \/ /\ Len(res.def[1].smartcards) = 2
          /\ HasController(synth[1], VIR_DOMAIN_CONTROLLER_TYPE_CCID, 0)
       \/ /\ Len(res.def[1].channels) = 3
          /\ HasController(synth[1], VIR_DOMAIN_CONTROLLER_TYPE_VIRTIO_SERIAL, 1)

\* the two definitions just compared in both directions are equal
ComparedBothWays ==
    /\ abiArgs # <<>>
    /\ abiBack # "none"
    /\ Operand(abiArgs[1]) = Operand(abiArgs[2])

\* C14: for two definitions that are structurally equal, with every device
\* list in the same order, CheckABIStability returns the same boolean in
\* both directions.
C14_SameBothWays ==
    ComparedBothWays => (abi \in {"true", "false"} /\ abiBack = abi)

\* the address of a device: its kind and the numbers of that kind
AddressDiffers(a, b) == a.info.type # b.info.type \/ a.info.addr # b.info.addr

\* some device of the target has another address than the device at the
\* same position of the same list of the source
SomeAddressDiffers(src, dst) ==
    \/ \E i \in 1..Len(src.disks) :
           i <= Len(dst.disks) /\ AddressDiffers(src.disks[i], dst.disks[i])
    \/ \E i \in 1..Len(src.controllers) :
           i <= Len(dst.controllers) /\ AddressDiffers(src.controllers[i], dst.controllers[i])
    \/ \E i \in 1..Len(src.smartcards) :
           i <= Len(dst.smartcards) /\ AddressDiffers(src.smartcards[i], dst.smartcards[i])
    \/ \E i \in 1..Len(src.channels) :
           i <= Len(dst.channels) /\ AddressDiffers(src.channels[i], dst.channels[i])
    \/ \E i \in 1..Len(src.inputs) :
           i <= Len(dst.inputs) /\ AddressDiffers(src.inputs[i], dst.inputs[i])
    \/ \E i \in 1..Len(src.videos) :
           i <= Len(dst.videos) /\ AddressDiffers(src.videos[i], dst.videos[i])

\* C15: when a device of the target definition has a different bus address,
\* of whatever address kind, than the device at the same list position of
\* the source definition, CheckABIStability returns false.
C15_AddressCompared ==
    (/\ abiArgs = <<"res", "res2">>
     /\ SomeAddressDiffers(res.def[1], res2.def[1]))
        => abi = "false"

\* the controller type of the disks of a bus
DiskControllerType(bus) ==
    CASE bus = VIR_DOMAIN_DISK_BUS_SCSI -> VIR_DOMAIN_CONTROLLER_TYPE_SCSI
      [] bus = VIR_DOMAIN_DISK_BUS_FDC -> VIR_DOMAIN_CONTROLLER_TYPE_FDC
      [] bus = VIR_DOMAIN_DISK_BUS_IDE -> VIR_DOMAIN_CONTROLLER_TYPE_IDE
      [] bus = VIR_DOMAIN_DISK_BUS_SATA -> VIR_DOMAIN_CONTROLLER_TYPE_SATA
      [] OTHER -> -1

\* the controllers 0..k; of a k of 2^31 or more (kept as a negative
\* number) the first one is looked for
ControllersUpTo(def, type, k) ==
    \A j \in 0..(IF k < 0 THEN 0 ELSE k) : HasController(def, type, j)

\* C16: in every definition the parser returns, each disk on a SCSI, FDC,
\* IDE or SATA bus whose drive address names controller k has the
\* controllers 0..k of the matching type, each virtio channel has the
\* virtio-serial controller of its controller index and each smartcard has
\* the CCID controller of its controller index.
C16_ControllersPresent ==
    \A r \in ParseResults :
        Parsed(r) =>
            /\ \A i \in 1..Len(r.def[1].disks) :
                   (/\ DiskControllerType(r.def[1].disks[i].bus) >= 0
                    /\ r.def[1].disks[i].info.type = VIR_DOMAIN_DEVICE_ADDRESS_TYPE_DRIVE)
                       => ControllersUpTo(r.def[1], DiskControllerType(r.def[1].disks[i].bus),
                                          r.def[1].disks[i].info.addr.drive.controller)
            /\ \A i \in 1..Len(r.def[1].channels) :
                   (/\ r.def[1].channels[i].targetType = VIR_DOMAIN_CHR_CHANNEL_TARGET_TYPE_VIRTIO
                    /\ r.def[1].channels[i].info.type = VIR_DOMAIN_DEVICE_ADDRESS_TYPE_VIRTIO_SERIAL)
                       => HasController(r.def[1], VIR_DOMAIN_CONTROLLER_TYPE_VIRTIO_SERIAL,
                                        r.def[1].channels[i].info.addr.vioserial.controller)
            /\ \A i \in 1..Len(r.def[1].smartcards) :
                   r.def[1].smartcards[i].info.type = VIR_DOMAIN_DEVICE_ADDRESS_TYPE_CCID
                       => HasController(r.def[1], VIR_DOMAIN_CONTROLLER_TYPE_CCID,
                                        r.def[1].smartcards[i].info.addr.ccid.controller)

\* the vCPU counts of a document
VcpuCountsOf(d) == ParseVcpu(ParseStart, d)

\* a well-formed <vcpupin> of a vCPU that is below the maximum and not online
OfflinePin(d, node) ==
    /\ VcpuCountsOf(d).err = NoErr
    /\ virDomainVcpuPinDefParseXML(node, VcpuCountsOf(d).def.maxvcpus, 0).def # <<>>
    /\ virDomainVcpuPinDefParseXML(node, VcpuCountsOf(d).def.maxvcpus, 0).def[1].vcpuid
           >= VcpuCountsOf(d).def.vcpus

RECURSIVE OnlinePins(_, _, _)
OnlinePins(d, nodes, i) ==
    IF i > Len(nodes) THEN <<>>
    ELSE IF OfflinePin(d, nodes[i]) THEN OnlinePins(d, nodes, i + 1)
    ELSE <<nodes[i]>> \o OnlinePins(d, nodes, i + 1)

\* the document without its pins of vCPUs that are not online
WithoutOfflinePins(d) == [d EXCEPT !.cputune.vcpupin = OnlinePins(d, @, 1)]

HasOfflinePin(d) == \E i \in 1..Len(d.cputune.vcpupin) : OfflinePin(d, d.cputune.vcpupin[i])

\* C21: every vcpupin of an accepted definition is of a vCPU below the
\* current vCPU count; and a document with well-formed vcpupin entries of
\* vCPUs at or above the current count and below the maximum, and no more
\* entries than the maximum, is parsed as the document without those
\* entries is: they are dropped and are no reason for an error.
C21_OfflinePinsDropped ==
    /\ \A r \in ParseResults :
           Parsed(r) =>
               \A i \in 1..Len(r.def[1].cputune.vcpupin) :
                   /\ 0 <= r.def[1].cputune.vcpupin[i].vcpuid
                   /\ r.def[1].cputune.vcpupin[i].vcpuid < r.def[1].vcpus
    /\ (/\ ppc # "start"
        /\ HasOfflinePin(doc)
        /\ Len(doc.cputune.vcpupin) <= VcpuCountsOf(doc).def.maxvcpus)
           => res = virDomainDefParseXML(WithoutOfflinePins(doc), flags, xmlopt)

\* a document with a pin of vCPU 2, of three vCPUs of which two are online,
\* was accepted, and the pins of the online vCPUs were kept
C21_OfflinePinDropped ==
    /\ Parsed(res)
    /\ HasOfflinePin(doc)
    /\ res.def[1].vcpus = 2
    /\ res.def[1].maxvcpus = 3
    /\ \E i \in 1..Len(doc.cputune.vcpupin) : doc.cputune.vcpupin[i].vcpu = Num(2)
    /\ Len(res.def[1].cputune.vcpupin) = 2
    /\ res.def[1].cputune.vcpupin[1].vcpuid # res.def[1].cputune.vcpupin[2].vcpuid

\* the elements of a document that carry a startupPolicy
DiskCarriesStartupPolicy(node) == node.startupPolicy # <<>>

HostdevCarriesStartupPolicy(node) ==
    node.source # <<>> /\ node.source[1].startupPolicy # <<>>

IsUsbHostdev(node) ==
    /\ node.mode \in {<<>>, <<"subsystem">>}
    /\ node.type = <<"usb">>

\* C23: in an accepted document every disk element that carries a
\* startupPolicy is a CD-ROM or a floppy, and every host-device element
\* that carries a startupPolicy is a USB host device.
C23_StartupPolicyRestricted ==
    (ppc # "start" /\ Parsed(res)) =>
        /\ \A i \in 1..Len(doc.devices.disk) :
               DiskCarriesStartupPolicy(doc.devices.disk[i]) =>
                   doc.devices.disk[i].device \in {<<"cdrom">>, <<"floppy">>}
        /\ \A i \in 1..Len(doc.devices.hostdev) :
               HostdevCarriesStartupPolicy(doc.devices.hostdev[i]) =>
                   IsUsbHostdev(doc.devices.hostdev[i])

\* what a <disk> element says of its device, its target name and its bus
NodeIsFloppy(node) == node.device = <<"floppy">>

NodeIsDiskOrLun(node) == node.device \in {<<>>, <<"disk">>, <<"lun">>}

NodeNamesBus(node, bus) == node.target # <<>> /\ node.target[1].bus = <<bus>>

NodeNamesABus(node) == node.target # <<>> /\ node.target[1].bus # <<>>

\* a <disk> element that breaks a rule of the names and buses
DiskBreaksKindRule(node) ==
    \/ NodeIsFloppy(node) /\ (node.target = <<>> \/ node.target[1].dev.prefix # "fd")
    \/ NodeIsFloppy(node) /\ NodeNamesABus(node) /\ ~NodeNamesBus(node, "fdc")
    \/ ~NodeIsFloppy(node) /\ NodeNamesBus(node, "fdc")
    \/ NodeIsDiskOrLun(node)
           /\ (node.target = <<>>
               \/ node.target[1].dev.prefix \notin {"hd", "sd", "vd", "xvd", "ubd"})

\* C24: every disk of an accepted definition that is a floppy has a
\* target name starting with "fd" and is on the FDC bus, every other disk
\* is on another bus, and every disk or LUN has a target name starting with
\* hd, sd, vd, xvd or ubd; and a document with a <disk> element that
\* breaks one of these rules is rejected.
C24_DiskKindRules ==
    /\ \A r \in ParseResults :
           Parsed(r) =>
               \A i \in 1..Len(r.def[1].disks) :
                   LET disk == r.def[1].disks[i]
                   IN  /\ disk.device = VIR_DOMAIN_DISK_DEVICE_FLOPPY
                              => (disk.dst.prefix = "fd" /\ disk.bus = VIR_DOMAIN_DISK_BUS_FDC)
                       /\ disk.device # VIR_DOMAIN_DISK_DEVICE_FLOPPY
                              => disk.bus # VIR_DOMAIN_DISK_BUS_FDC
                       /\ disk.device \in {VIR_DOMAIN_DISK_DEVICE_DISK,
                                            VIR_DOMAIN_DISK_DEVICE_LUN}
                              => disk.dst.prefix \in {"hd", "sd", "vd", "xvd", "ubd"}
    /\ (ppc # "start"
        /\ \E i \in 1..Len(doc.devices.disk) : DiskBreaksKindRule(doc.devices.disk[i]))
           => ~Parsed(res)

\* the document with a floppy of the target name sda was rejected for
\* the name
C24_FloppyNamedSdaRejected ==
    /\ ppc # "start"
    /\ Len(doc.devices.disk) = 1
    /\ NodeIsFloppy(doc.devices.disk[1])
    /\ doc.devices.disk[1].target[1].dev = [prefix |-> "sd", idx |-> 0]
    /\ ~Parsed(res)
    /\ res.err = "Invalid floppy device name"

(***************************************************************************)
(* The operations of the registry.  A thread enters FindByID, FindByUUID,  *)
(* FindByName and Add holding no object lock, and Remove holding the lock  *)
(* of the object it removes; an operation that returns an object returns   *)
(* it locked, and the caller unlocks it.                                   *)
(***************************************************************************)
Enter(t, locals) ==
    /\ tpc[t] = "idle"
    /\ nops < MaxOps
    /\ nops' = nops + 1
    /\ tloc' = [tloc EXCEPT ![t] = locals]
    /\ tpc' = [tpc EXCEPT ![t] = "lock_doms"]

virDomainObjListFindByID(t) ==
    /\ tloc[t].held = 0
    /\ Enter(t, [Idle(0, "none") EXCEPT !.op = "FindByID", !.id = 1])
    /\ UNCHANGED <<objs, domains, lockOwner, hist>>
    /\ UNCHANGED <<parseVars, deviceVars>>

virDomainObjListFindByUUID(t) ==
    /\ tloc[t].held = 0
    /\ \E uuid \in UUIDs :
           Enter(t, [Idle(0, "none") EXCEPT !.op = "FindByUUID", !.uuid = uuid])
    /\ UNCHANGED <<objs, domains, lockOwner, hist>>
    /\ UNCHANGED <<parseVars, deviceVars>>

virDomainObjListFindByName(t) ==
    /\ tloc[t].held = 0
    /\ \E name \in Names :
           Enter(t, [Idle(0, "none") EXCEPT !.op = "FindByName", !.name = name])
    /\ UNCHANGED <<objs, domains, lockOwner, hist>>
    /\ UNCHANGED <<parseVars, deviceVars>>

\* the definition handed to Add has the uuid and the name the operation
\* looks up; the rest of it, the flags and oldDef are read by AddLocked only
\* where it assigns or creates, and are drawn there
virDomainObjListAdd(t) ==
    /\ tloc[t].held = 0
    /\ \E uuid \in UUIDs, name \in Names :
           Enter(t, [Idle(0, "none") EXCEPT !.op = "Add", !.uuid = uuid, !.name = name])
    /\ UNCHANGED <<objs, domains, lockOwner, hist>>
    /\ UNCHANGED <<parseVars, deviceVars>>

\* Remove were it to keep the caller's lock on dom while it takes the
\* registry lock
RemoveKeepingDomLock(t) ==
    /\ tloc[t].held # 0
    /\ Enter(t, [Idle(0, "none") EXCEPT !.op = "Remove", !.vm = tloc[t].held,
                     !.uuid = domains[tloc[t].held].def[1].uuid])
    /\ domains' = [domains EXCEPT ![tloc[t].held] = virObjectRef(@)]
    /\ UNCHANGED <<objs, lockOwner, hist>>
    /\ UNCHANGED <<parseVars, deviceVars>>

\* the statements of Remove up to its virObjectLock(doms): the key is
\* formatted, a reference is taken, and the caller's lock on dom is dropped
virDomainObjListRemove(t) ==
    /\ tloc[t].held # 0
    /\ Enter(t, [Idle(0, "none") EXCEPT !.op = "Remove", !.vm = tloc[t].held,
                     !.uuid = domains[tloc[t].held].def[1].uuid])
    /\ domains' = [domains EXCEPT ![tloc[t].held] = virObjectRef(@)]
    /\ lockOwner' = [lockOwner EXCEPT !.obj[tloc[t].held] = 0]
    /\ UNCHANGED <<objs, hist>>
    /\ UNCHANGED <<parseVars, deviceVars>>

\* the caller's virObjectUnlock of the object an operation returned
CallerUnlock(t) ==
    /\ tpc[t] = "idle"
    /\ tloc[t].held # 0
    /\ lockOwner' = [lockOwner EXCEPT !.obj[tloc[t].held] = 0]
    /\ tloc' = [tloc EXCEPT ![t].held = 0]
    /\ UNCHANGED <<objs, domains, tpc, hist, nops>>
    /\ UNCHANGED <<parseVars, deviceVars>>

\* where an operation goes once the table has no further entry to visit
SearchFrom(t, c) ==
    IF NextEntry(objs, c) # 0
    THEN /\ tloc' = [tloc EXCEPT ![t].cur = NextEntry(objs, c)]
         /\ tpc' = [tpc EXCEPT ![t] = "search"]
    ELSE IF tloc[t].op = "Add"
    THEN /\ tloc' = [tloc EXCEPT ![t].cur = 0]
         /\ tpc' = [tpc EXCEPT ![t] = "new"]
    ELSE /\ tloc' = [tloc EXCEPT ![t].cur = 0, ![t].vm = 0, ![t].ret = "null"]
         /\ tpc' = [tpc EXCEPT ![t] = "unlock_doms"]

\* virObjectLock(doms)
LockDoms(t) ==
    /\ tpc[t] = "lock_doms"
    /\ lockOwner.doms = 0
    /\ lockOwner' = [lockOwner EXCEPT !.doms = t]
    /\ IF tloc[t].op \in {"FindByUUID", "Add"}
       THEN tpc' = [tpc EXCEPT ![t] = "lookup"] /\ UNCHANGED tloc
       ELSE IF tloc[t].op = "Remove"
       THEN tpc' = [tpc EXCEPT ![t] = "remove_lock_dom"] /\ UNCHANGED tloc
       ELSE SearchFrom(t, 1)
    /\ UNCHANGED <<objs, domains, hist, nops>>
    /\ UNCHANGED <<parseVars, deviceVars>>

\* virHashLookup(doms->objs, uuidstr)
HashLookup(t) ==
    /\ tpc[t] = "lookup"
    /\ IF objs[tloc[t].uuid] # 0
       THEN /\ tloc' = [tloc EXCEPT ![t].vm = objs[tloc[t].uuid],
                                    ![t].why = IF tloc[t].op = "Add" THEN "uuid" ELSE "found"]
            /\ tpc' = [tpc EXCEPT ![t] = "lock_vm"]
       ELSE IF tloc[t].op = "Add"
       THEN SearchFrom(t, 1)
       ELSE /\ tloc' = [tloc EXCEPT ![t].vm = 0, ![t].ret = "null"]
            /\ tpc' = [tpc EXCEPT ![t] = "unlock_doms"]
    /\ UNCHANGED <<objs, domains, lockOwner, hist, nops>>
    /\ UNCHANGED <<parseVars, deviceVars>>

\* virHashSearch calls the callback on the entry it visits, and the callback
\* begins with virObjectLock(obj)
SearchLock(t) ==
    /\ tpc[t] = "search"
    /\ lockOwner.obj[objs[HashOrder[tloc[t].cur]]] = 0
    /\ lockOwner' = [lockOwner EXCEPT !.obj[objs[HashOrder[tloc[t].cur]]] = t]
    /\ tpc' = [tpc EXCEPT ![t] = "search_check"]
    /\ UNCHANGED <<objs, domains, tloc, hist, nops>>
    /\ UNCHANGED <<parseVars, deviceVars>>

\* does the callback of the operation want the object
SearchWants(l, obj) ==
    IF l.op = "FindByID"
    THEN virDomainObjListSearchID(obj, l.id)
    ELSE virDomainObjListSearchName(obj, l.name)

\* the rest of the callback: the test and virObjectUnlock(obj); the search
\* ends on the first object wanted
SearchCheck(t) ==
    /\ tpc[t] = "search_check"
    /\ lockOwner' = [lockOwner EXCEPT !.obj[objs[HashOrder[tloc[t].cur]]] = 0]
    /\ IF SearchWants(tloc[t], domains[objs[HashOrder[tloc[t].cur]]])
       THEN /\ tloc' = [tloc EXCEPT ![t].vm = objs[HashOrder[tloc[t].cur]],
                                    ![t].why = IF tloc[t].op = "Add" THEN "name" ELSE "found"]
            /\ tpc' = [tpc EXCEPT ![t] = "lock_vm"]
       ELSE SearchFrom(t, tloc[t].cur + 1)
    /\ UNCHANGED <<objs, domains, hist, nops>>
    /\ UNCHANGED <<parseVars, deviceVars>>

\* AddLocked were it to return NULL for a name under another UUID without
\* unlocking the object it has locked
LockVmKeepingNameLock(t) ==
    /\ tpc[t] = "lock_vm"
    /\ lockOwner.obj[tloc[t].vm] = 0
    /\ lockOwner' = [lockOwner EXCEPT !.obj[tloc[t].vm] = t]
    /\ IF tloc[t].why = "name"
       THEN /\ tloc' = [tloc EXCEPT ![t].vm = 0, ![t].ret = "refused_name"]
            /\ tpc' = [tpc EXCEPT ![t] = "unlock_doms"]
       ELSE IF tloc[t].why = "uuid"
       THEN tpc' = [tpc EXCEPT ![t] = "assign"] /\ UNCHANGED tloc
       ELSE /\ tloc' = [tloc EXCEPT ![t].ret = "found"]
            /\ tpc' = [tpc EXCEPT ![t] = "unlock_doms"]
    /\ UNCHANGED <<objs, domains, hist, nops>>
    /\ UNCHANGED <<parseVars, deviceVars>>

\* virObjectLock(vm) on the object found.  In AddLocked an object found by
\* name, under another UUID, is an error: the object is unlocked again and
\* NULL is returned
LockVm(t) ==
    /\ tpc[t] = "lock_vm"
    /\ lockOwner.obj[tloc[t].vm] = 0
    /\ IF tloc[t].why = "name"
       THEN /\ UNCHANGED lockOwner
            /\ tloc' = [tloc EXCEPT ![t].vm = 0, ![t].ret = "refused_name"]
            /\ tpc' = [tpc EXCEPT ![t] = "unlock_doms"]
       ELSE /\ lockOwner' = [lockOwner EXCEPT !.obj[tloc[t].vm] = t]
            /\ IF tloc[t].why = "uuid"
               THEN tpc' = [tpc EXCEPT ![t] = "assign"] /\ UNCHANGED tloc
               ELSE /\ tloc' = [tloc EXCEPT ![t].ret = "found"]
                    /\ tpc' = [tpc EXCEPT ![t] = "unlock_doms"]
    /\ UNCHANGED <<objs, domains, hist, nops>>
    /\ UNCHANGED <<parseVars, deviceVars>>

\* the definitions Add can be handed by an operation that looks up l.uuid
\* and l.name
DefsOf(l) == {d \in Defs : d.uuid = l.uuid /\ d.name = l.name}

AddFlags == SUBSET {VIR_DOMAIN_OBJ_LIST_ADD_LIVE, VIR_DOMAIN_OBJ_LIST_ADD_CHECK_LIVE}

\* what AddAssign records of a virDomainObjAssignDef call
Assigned(vm, pre, def, live, r) ==
    <<[vm |-> vm, pre |-> pre, def |-> def, live |-> live, post |-> r.domain,
       oldDef |-> r.oldDef, freed |-> r.freed]>>

\* AddLocked on the object that has the UUID of the definition
AddAssign(t) ==
    /\ tpc[t] = "assign"
    /\ \E def \in DefsOf(tloc[t]), fl \in AddFlags, oldDef \in BOOLEAN :
        IF domains[tloc[t].vm].def[1].name # def.name
        THEN /\ lockOwner' = [lockOwner EXCEPT !.obj[tloc[t].vm] = 0]
             /\ tloc' = [tloc EXCEPT ![t].vm = 0, ![t].ret = "refused_uuid"]
             /\ UNCHANGED <<domains, hist>>
        ELSE IF /\ VIR_DOMAIN_OBJ_LIST_ADD_CHECK_LIVE \in fl
                /\ virDomainObjIsActive(domains[tloc[t].vm])
        THEN /\ lockOwner' = [lockOwner EXCEPT !.obj[tloc[t].vm] = 0]
             /\ tloc' = [tloc EXCEPT ![t].vm = 0, ![t].ret = "refused_active"]
             /\ UNCHANGED <<domains, hist>>
        ELSE /\ domains' = [domains EXCEPT ![tloc[t].vm] =
                    virDomainObjAssignDef(@, def, VIR_DOMAIN_OBJ_LIST_ADD_LIVE \in fl,
                                          oldDef).domain]
             /\ hist' = Assigned(tloc[t].vm, domains[tloc[t].vm], def,
                    VIR_DOMAIN_OBJ_LIST_ADD_LIVE \in fl,
                    virDomainObjAssignDef(domains[tloc[t].vm], def,
                                          VIR_DOMAIN_OBJ_LIST_ADD_LIVE \in fl, oldDef))
             /\ tloc' = [tloc EXCEPT ![t].ret = "assigned"]
             /\ UNCHANGED lockOwner
    /\ tpc' = [tpc EXCEPT ![t] = "unlock_doms"]
    /\ UNCHANGED <<objs, nops>>
    /\ UNCHANGED <<parseVars, deviceVars>>

\* the objects virDomainObjNew has not allocated yet
FreeObjs == {o \in Objs : domains[o] = NoObj}

\* AddLocked when no object has the UUID or the name: virDomainObjNew, which
\* returns the object locked or fails, and virHashAddEntry
AddNew(t) ==
    /\ tpc[t] = "new"
    /\ IF FreeObjs = {}
       THEN /\ tloc' = [tloc EXCEPT ![t].vm = 0, ![t].ret = "null"]
            /\ UNCHANGED <<objs, domains, lockOwner>>
       ELSE \E def \in DefsOf(tloc[t]) :
            LET o == CHOOSE x \in FreeObjs : \A y \in FreeObjs : x <= y
            IN  /\ domains' = [domains EXCEPT ![o] = [virDomainObjNew EXCEPT !.def = <<def>>]]
                /\ lockOwner' = [lockOwner EXCEPT !.obj[o] = t]
                /\ objs' = [objs EXCEPT ![tloc[t].uuid] = o]
                /\ tloc' = [tloc EXCEPT ![t].vm = o, ![t].ret = "added"]
    /\ tpc' = [tpc EXCEPT ![t] = "unlock_doms"]
    /\ UNCHANGED <<hist, nops>>
    /\ UNCHANGED <<parseVars, deviceVars>>

\* virObjectUnlock(doms) and the return to the caller; the record of the
\* virDomainObjAssignDef call is kept until here
UnlockDoms(t) ==
    /\ tpc[t] = "unlock_doms"
    /\ lockOwner' = [lockOwner EXCEPT !.doms = 0]
    /\ tloc' = [tloc EXCEPT ![t] = Idle(tloc[t].vm, tloc[t].ret)]
    /\ tpc' = [tpc EXCEPT ![t] = "idle"]
    /\ hist' = <<>>
    /\ UNCHANGED <<objs, domains, nops>>
    /\ UNCHANGED <<parseVars, deviceVars>>

\* Remove, holding the registry lock: virObjectLock(dom)
RemoveLockDom(t) ==
    /\ tpc[t] = "remove_lock_dom"
    /\ lockOwner.obj[tloc[t].vm] = 0
    /\ lockOwner' = [lockOwner EXCEPT !.obj[tloc[t].vm] = t]
    /\ tpc' = [tpc EXCEPT ![t] = "remove_entry"]
    /\ UNCHANGED <<objs, domains, tloc, hist, nops>>
    /\ UNCHANGED <<parseVars, deviceVars>>

\* the rest of Remove were it to leave the entry in the table
RemoveEntryLeavingEntry(t) ==
    /\ tpc[t] = "remove_entry"
    /\ domains' = [domains EXCEPT ![tloc[t].vm] = virObjectUnref(@)]
    /\ lockOwner' = [doms |-> 0, obj |-> [lockOwner.obj EXCEPT ![tloc[t].vm] = 0]]
    /\ tloc' = [tloc EXCEPT ![t] = Idle(0, "removed")]
    /\ tpc' = [tpc EXCEPT ![t] = "idle"]
    /\ UNCHANGED <<objs, hist, nops>>
    /\ UNCHANGED <<parseVars, deviceVars>>

\* the rest of Remove: virHashRemoveEntry by the key, virObjectUnlock(dom),
\* virObjectUnref(dom), virObjectUnlock(doms)
RemoveEntry(t) ==
    /\ tpc[t] = "remove_entry"
    /\ objs' = virHashRemoveEntry(objs, domains, tloc[t].uuid).objs
    /\ domains' = [virHashRemoveEntry(objs, domains, tloc[t].uuid).domains
                       EXCEPT ![tloc[t].vm] = virObjectUnref(@)]
    /\ lockOwner' = [doms |-> 0, obj |-> [lockOwner.obj EXCEPT ![tloc[t].vm] = 0]]
    /\ tloc' = [tloc EXCEPT ![t] = Idle(0, "removed")]
    /\ tpc' = [tpc EXCEPT ![t] = "idle"]
    /\ UNCHANGED <<hist, nops>>
    /\ UNCHANGED <<parseVars, deviceVars>>

\* the parser scenario while the registry runs: nothing is parsed
ParseIdle ==
    /\ doc = BaseDoc
    /\ doc2 = BaseDoc
    /\ xmlopt = BaseXmlopt
    /\ flags = {}
    /\ res = Unparsed
    /\ res2 = Unparsed
    /\ copy = Unparsed
    /\ formatted = NoXml
    /\ reparsed = Unparsed
    /\ abi = "none"
    /\ abiArgs = <<>>
    /\ abiBack = "none"
    /\ synth = <<>>
    /\ ppc = "start"

RegistryNext ==
    \E t \in Threads :
        \/ virDomainObjListFindByID(t)
        \/ virDomainObjListFindByUUID(t)
        \/ virDomainObjListFindByName(t)
        \/ virDomainObjListAdd(t)
        \/ virDomainObjListRemove(t)
        \/ CallerUnlock(t)
        \/ LockDoms(t)
        \/ HashLookup(t)
        \/ SearchLock(t)
        \/ SearchCheck(t)
        \/ LockVm(t)
        \/ AddAssign(t)
        \/ AddNew(t)
        \/ UnlockDoms(t)
        \/ RemoveLockDom(t)
        \/ RemoveEntry(t)

\* the registry after virDomainObjListNew, and no thread in an operation
RegistryStart ==
    /\ ParseIdle
    /\ RegistryInit
    /\ DevicesIdle

SpecRegistry == RegistryStart /\ [][RegistryNext]_vars

(***************************************************************************)
(* Listing and loading.  virDomainObjListExport visits every entry of the  *)
(* table under the registry lock and either counts the domains the filter  *)
(* flags select or hands them back in an array;                            *)
(* virDomainObjListLoadAllConfigs, called for a status directory           *)
(* (liveStatus set), registers the domain object of every status file.    *)
(* Of the filter groups the flags drawn use the one by activity; a group   *)
(* none of whose flags is set lets every domain pass.                      *)
(***************************************************************************)
VIR_CONNECT_LIST_DOMAINS_ACTIVE == "LIST_ACTIVE"

VIR_CONNECT_LIST_DOMAINS_INACTIVE == "LIST_INACTIVE"

VIR_CONNECT_LIST_DOMAINS_FILTERS_ACTIVE ==
    {VIR_CONNECT_LIST_DOMAINS_ACTIVE, VIR_CONNECT_LIST_DOMAINS_INACTIVE}

\* the status files a directory holds at most
MaxFiles == 2

\* data->flags & (FLAG)
MATCH(fl, FLAG) == fl \cap FLAG # {}

\* the filter by active state of virDomainListPopulate: does vm pass
ListFilterPasses(fl, vm) ==
    ~(/\ MATCH(fl, VIR_CONNECT_LIST_DOMAINS_FILTERS_ACTIVE)
      /\ ~(\/ MATCH(fl, {VIR_CONNECT_LIST_DOMAINS_ACTIVE}) /\ virDomainObjIsActive(vm)
           \/ MATCH(fl, {VIR_CONNECT_LIST_DOMAINS_INACTIVE}) /\ ~virDomainObjIsActive(vm)))

\* the locals of virDomainObjListExport: data is the virDomainListData
\* (domains: is there an array to fill), cur the entry virHashForEach is at
ExportLocals(fl, array) ==
    [op |-> "Export", cur |-> 0, held |-> 0, ret |-> -1,
     data |-> [domains |-> array, flags |-> fl, ndomains |-> 0, error |-> FALSE]]

\* the call, up to its virObjectLock(doms); domains is NULL when the caller
\* wants the count only
virDomainObjListExport(t) ==
    /\ tpc[t] = "idle"
    /\ tloc[t].held = 0
    /\ nops < MaxOps
    /\ nops' = nops + 1
    /\ \E fl \in SUBSET VIR_CONNECT_LIST_DOMAINS_FILTERS_ACTIVE, array \in BOOLEAN :
           tloc' = [tloc EXCEPT ![t] = ExportLocals(fl, array)]
    /\ tpc' = [tpc EXCEPT ![t] = "export_lock_doms"]
    /\ UNCHANGED <<objs, domains, lockOwner, hist>>
    /\ UNCHANGED <<parseVars, deviceVars>>

\* where virHashForEach goes after the entries before position c
ForEachFrom(t, c, data) ==
    /\ tloc' = [tloc EXCEPT ![t].cur = NextEntry(objs, c), ![t].data = data]
    /\ tpc' = [tpc EXCEPT ![t] = IF NextEntry(objs, c) # 0 THEN "populate"
                                  ELSE "export_done"]

\* virObjectLock(doms) and the allocation of the array, which can fail
ExportLockDoms(t) ==
    /\ tpc[t] = "export_lock_doms"
    /\ lockOwner.doms = 0
    /\ lockOwner' = [lockOwner EXCEPT !.doms = t]
    /\ \/ ForEachFrom(t, 1, tloc[t].data)
       \/ /\ tloc[t].data.domains
          /\ tloc' = [tloc EXCEPT ![t].data.domains = FALSE]
          /\ tpc' = [tpc EXCEPT ![t] = "export_cleanup"]
    /\ UNCHANGED <<objs, domains, hist, nops>>
    /\ UNCHANGED <<parseVars, deviceVars>>

\* the callback of virHashForEach on the entry at cur: nothing once an
\* error is recorded; else virObjectLock(vm), the filter, and either the
\* count (which returns at once) or virGetDomain, which can fail, and the
\* array; cleanup is virObjectUnlock(vm)
virDomainListPopulate(t) ==
    /\ tpc[t] = "populate"
    /\ LET vm == objs[HashOrder[tloc[t].cur]]
           data == tloc[t].data
       IN  IF data.error
           THEN /\ ForEachFrom(t, tloc[t].cur + 1, data)
                /\ UNCHANGED lockOwner
           ELSE /\ lockOwner.obj[vm] = 0
                /\ IF ~ListFilterPasses(data.flags, domains[vm])
                   THEN /\ ForEachFrom(t, tloc[t].cur + 1, data)
                        /\ UNCHANGED lockOwner
                   ELSE IF ~data.domains
                   THEN /\ ForEachFrom(t, tloc[t].cur + 1,
                                       [data EXCEPT !.ndomains = @ + 1])
                        /\ lockOwner' = [lockOwner EXCEPT !.obj[vm] = t]
                   ELSE /\ \/ ForEachFrom(t, tloc[t].cur + 1,
                                          [data EXCEPT !.error = TRUE])
                           \/ ForEachFrom(t, tloc[t].cur + 1,
                                          [data EXCEPT !.ndomains = @ + 1])
                        /\ UNCHANGED lockOwner
    /\ UNCHANGED <<objs, domains, hist, nops>>
    /\ UNCHANGED <<parseVars, deviceVars>>

\* after virHashForEach: the array goes to the caller and ret is the number
\* of domains, unless an error is recorded
ExportDone(t) ==
    /\ tpc[t] = "export_done"
    /\ tloc' = [tloc EXCEPT ![t].ret = IF tloc[t].data.error THEN -1
                                       ELSE tloc[t].data.ndomains]
    /\ tpc' = [tpc EXCEPT ![t] = "export_cleanup"]
    /\ UNCHANGED <<objs, domains, lockOwner, hist, nops>>
    /\ UNCHANGED <<parseVars, deviceVars>>

\* cleanup: what is left of the array is released, virObjectUnlock(doms);
\* op keeps the name of the operation that returned ret
ExportCleanup(t) ==
    /\ tpc[t] = "export_cleanup"
    /\ lockOwner' = [lockOwner EXCEPT !.doms = 0]
    /\ tloc' = [tloc EXCEPT ![t] = [Idle(0, tloc[t].ret) EXCEPT !.op = "Export"]]
    /\ tpc' = [tpc EXCEPT ![t] = "idle"]
    /\ UNCHANGED <<objs, domains, hist, nops>>
    /\ UNCHANGED <<parseVars, deviceVars>>

\* virDomainObjListLoadAllConfigs with liveStatus set, up to its
\* virObjectLock(doms); cur counts the directory entries read
virDomainObjListLoadAllConfigs(t) ==
    /\ tpc[t] = "idle"
    /\ tloc[t].held = 0
    /\ nops < MaxOps
    /\ nops' = nops + 1
    /\ tloc' = [tloc EXCEPT ![t] = [Idle(0, "none") EXCEPT !.op = "LoadAllConfigs"]]
    /\ tpc' = [tpc EXCEPT ![t] = "load_lock_doms"]
    /\ UNCHANGED <<objs, domains, lockOwner, hist>>
    /\ UNCHANGED <<parseVars, deviceVars>>

LoadLockDoms(t) ==
    /\ tpc[t] = "load_lock_doms"
    /\ lockOwner.doms = 0
    /\ lockOwner' = [lockOwner EXCEPT !.doms = t]
    /\ tpc' = [tpc EXCEPT ![t] = "load"]
    /\ UNCHANGED <<objs, domains, tloc, hist, nops>>
    /\ UNCHANGED <<parseVars, deviceVars>>

\* the registry after virDomainObjListLoadStatus on a file that parsed to
\* an object o of definition def: an error when the table has the UUID, else
\* virHashAddEntry; loaded tells which
virDomainObjListLoadStatus(table, objects, o, def) ==
    IF table[def.uuid] # 0
    THEN [objs |-> table, domains |-> objects, loaded |-> FALSE]
    ELSE [objs |-> [table EXCEPT ![def.uuid] = o],
          domains |-> [objects EXCEPT ![o] = [virDomainObjNew EXCEPT !.def = <<def>>]],
          loaded |-> TRUE]

\* one turn of the loop over the directory: the file does not parse (or no
\* object can be allocated) and the error is ignored, or it parses to a
\* locked object, which virDomainObjListLoadStatus registers or releases;
\* the object registered is unlocked by the loop
LoadStatus(t) ==
    /\ tpc[t] = "load"
    /\ tloc[t].cur < MaxFiles
    /\ \/ UNCHANGED <<objs, domains>>
       \/ /\ FreeObjs # {}
          /\ \E def \in Defs :
               LET o == CHOOSE x \in FreeObjs : \A y \in FreeObjs : x <= y
                   r == virDomainObjListLoadStatus(objs, domains, o, def)
               IN  /\ objs' = r.objs
                   /\ domains' = r.domains
    /\ tloc' = [tloc EXCEPT ![t].cur = @ + 1]
    /\ UNCHANGED <<lockOwner, tpc, hist, nops>>
    /\ UNCHANGED <<parseVars, deviceVars>>

\* readdir has no further entry: closedir, virObjectUnlock(doms), return 0
LoadDone(t) ==
    /\ tpc[t] = "load"
    /\ lockOwner' = [lockOwner EXCEPT !.doms = 0]
    /\ tloc' = [tloc EXCEPT ![t] = Idle(0, "loaded")]
    /\ tpc' = [tpc EXCEPT ![t] = "idle"]
    /\ UNCHANGED <<objs, domains, hist, nops>>
    /\ UNCHANGED <<parseVars, deviceVars>>

\* the threads of a driver that fills its registry from the status directory
\* and lists it
ExportNext ==
    \E t \in Threads :
        \/ virDomainObjListExport(t)
        \/ ExportLockDoms(t)
        \/ virDomainListPopulate(t)
        \/ ExportDone(t)
        \/ ExportCleanup(t)
        \/ virDomainObjListLoadAllConfigs(t)
        \/ LoadLockDoms(t)
        \/ LoadStatus(t)
        \/ LoadDone(t)

SpecExport == RegistryStart /\ [][ExportNext]_vars

(***************************************************************************)
(* The operations of a driver on its definition.                           *)
(***************************************************************************)
\* the driver has not yet run the iteration, with which it ends
Working == dop.op # "iterate"

\* virDomainDeviceInfoIterate with a visitor whose failAt-th call fails
DeviceInfoIterate ==
    /\ Working
    /\ \E failAt \in 0..(Len(DeviceInfoIterateOrder(ddef, FALSE)) + 1) :
           dop' = [op |-> "iterate", all |-> FALSE, failAt |-> failAt,
                   ret |-> virDomainDeviceInfoIterate(ddef, failAt).ret,
                   calls |-> virDomainDeviceInfoIterate(ddef, failAt).calls]
    /\ UNCHANGED <<ddef, dobj>>
    /\ UNCHANGED <<parseVars, registryVars>>

\* the iteration over every device, as the post-parse pass runs it
DeviceInfoIterateAll ==
    /\ Working
    /\ \E failAt \in 0..(Len(DeviceInfoIterateOrder(ddef, TRUE)) + 1) :
           dop' = [op |-> "iterate", all |-> TRUE, failAt |-> failAt,
                   ret |-> DeviceInfoIterateWith(DeviceInfoIterateOrder(ddef, TRUE),
                                                 1, failAt, <<>>).ret,
                   calls |-> DeviceInfoIterateWith(DeviceInfoIterateOrder(ddef, TRUE),
                                                   1, failAt, <<>>).calls]
    /\ UNCHANGED <<ddef, dobj>>
    /\ UNCHANGED <<parseVars, registryVars>>

DevicesNext ==
    \/ DeviceInfoIterate
    \/ DeviceInfoIterateAll

DevicesStart ==
    /\ ParseIdle
    /\ RegistryInit
    /\ DevicesInit

SpecDevices == DevicesStart /\ [][DevicesNext]_vars

(***************************************************************************)
(* Properties of the operations of a driver on its definition.             *)
(***************************************************************************)
\* the device lists in the order in which the iteration is to go through them
ListOrder ==
    <<"disks", "nets", "sounds", "hostdevs", "videos", "controllers", "smartcards",
      "serials", "parallels", "channels", "consoles", "inputs", "fss", "watchdog",
      "memballoon", "rng", "hubs">>

ListRank(list) == CHOOSE k \in 1..Len(ListOrder) : ListOrder[k] = list

ListOf(def, list) ==
    CASE list = "disks" -> def.disks [] list = "nets" -> def.nets
      [] list = "sounds" -> def.sounds [] list = "hostdevs" -> def.hostdevs
      [] list = "videos" -> def.videos [] list = "controllers" -> def.controllers
      [] list = "smartcards" -> def.smartcards [] list = "serials" -> def.serials
      [] list = "parallels" -> def.parallels [] list = "channels" -> def.channels
      [] list = "consoles" -> def.consoles [] list = "inputs" -> def.inputs
      [] list = "fss" -> def.fss [] list = "watchdog" -> def.watchdog
      [] list = "memballoon" -> def.memballoon [] list = "rng" -> def.rng
      [] OTHER -> def.hubs

\* the first console is the alias of serial port 0: the guest is fully
\* virtualized and the target of the console is serial or unset
FirstConsoleIsAlias(def) ==
    /\ def.consoles # <<>>
    /\ def.os.type = "hvm"
    /\ def.consoles[1].targetType \in {VIR_DOMAIN_CHR_CONSOLE_TARGET_TYPE_SERIAL,
                                       VIR_DOMAIN_CHR_CONSOLE_TARGET_TYPE_NONE}

\* the places <<list, index>> of the devices the iteration is to visit
ToVisit(def, all) ==
    {pl \in {ListOrder[k] : k \in 1..Len(ListOrder)} \X (1..MaxDevices) :
        /\ pl[2] <= Len(ListOf(def, pl[1]))
        /\ ~(pl[1] = "consoles" /\ pl[2] = 1 /\ ~all /\ FirstConsoleIsAlias(def))}

PlaceBefore(a, b) ==
    \/ ListRank(a[1]) < ListRank(b[1])
    \/ a[1] = b[1] /\ a[2] < b[2]

Visited(calls) == {<<calls[i].list, calls[i].idx>> : i \in 1..Len(calls)}

\* C22: the calls of the visitor the iteration makes are calls on devices it
\* is to visit (every device of the lists but the first console when it is
\* the alias of serial port 0 and includeAll is false), in the fixed order
\* of the lists and within a list in the order of the list, with no device
\* left out before the last call; the iteration returns the failure of the
\* first call that fails, having made no call after it, and else returns 0
\* having visited every device.
C22_IterationOrder ==
    dop.op = "iterate" =>
        /\ Visited(dop.calls) \subseteq ToVisit(ddef, dop.all)
        /\ \A i \in 1..Len(dop.calls) : \A j \in 1..Len(dop.calls) :
               i < j => PlaceBefore(<<dop.calls[i].list, dop.calls[i].idx>>,
                                    <<dop.calls[j].list, dop.calls[j].idx>>)
        /\ \A pl \in ToVisit(ddef, dop.all) : \A v \in Visited(dop.calls) :
               PlaceBefore(pl, v) => pl \in Visited(dop.calls)
        /\ dop.ret \in {0, -1}
        /\ dop.ret = -1 <=> (dop.failAt >= 1 /\ Len(dop.calls) = dop.failAt)
        /\ dop.ret = 0 => Visited(dop.calls) = ToVisit(ddef, dop.all)
        /\ (dop.failAt >= 1 /\ dop.failAt <= Cardinality(ToVisit(ddef, dop.all)))
               => dop.ret = -1

\* an iteration that does not ask for every device left out the first
\* console, the alias of serial port 0, visited the second one and stopped
\* at the failure of the visitor on a later device
C22_AliasSkippedThenFailure ==
    /\ dop.op = "iterate"
    /\ ~dop.all
    /\ FirstConsoleIsAlias(ddef)
    /\ Len(ddef.consoles) = 2
    /\ <<"consoles", 2>> \in Visited(dop.calls)
    /\ <<"consoles", 1>> \notin Visited(dop.calls)
    /\ dop.ret = -1
    /\ dop.calls[Len(dop.calls)].list = "inputs"
    /\ ddef.hubs # <<>>

(***************************************************************************)
(* The operations of a driver on its domain object: dop keeps the domain   *)
(* as it was before the call (pre) and what the call returned.             *)
(***************************************************************************)
ObjSetDefTransient ==
    /\ \E live \in BOOLEAN :
           \E r \in {virDomainObjSetDefTransient(BaseXmlopt, dobj, live)} :
               /\ dobj' = r.domain
               /\ dop' = [op |-> "SetDefTransient", pre |-> dobj, live |-> live,
                          ret |-> r.ret]
    /\ UNCHANGED ddef
    /\ UNCHANGED <<parseVars, registryVars>>

ObjGetPersistentDef ==
    /\ \E r \in {virDomainObjGetPersistentDef(BaseXmlopt, dobj)} :
           /\ dobj' = r.domain
           /\ dop' = [op |-> "GetPersistentDef", pre |-> dobj, ret |-> r.ret]
    /\ UNCHANGED ddef
    /\ UNCHANGED <<parseVars, registryVars>>

LiveConfigHelperMethod ==
    /\ \E fl \in SUBSET {VIR_DOMAIN_AFFECT_LIVE, VIR_DOMAIN_AFFECT_CONFIG} :
           \E r \in {virDomainLiveConfigHelperMethod(BaseXmlopt, dobj, fl)} :
               /\ dobj' = r.domain
               /\ dop' = [op |-> "LiveConfigHelperMethod", pre |-> dobj, flags |-> fl,
                          out |-> r.flags, ret |-> r.ret,
                          persistentDef |-> r.persistentDef]
    /\ UNCHANGED ddef
    /\ UNCHANGED <<parseVars, registryVars>>

DomainObjNext ==
    \/ ObjSetDefTransient
    \/ ObjGetPersistentDef
    \/ LiveConfigHelperMethod

DomainObjStart ==
    /\ ParseIdle
    /\ RegistryInit
    /\ DomainObjInit

SpecDomainObj == DomainObjStart /\ [][DomainObjNext]_vars

(***************************************************************************)
(* The lease operations of a driver on its definition.                     *)
(***************************************************************************)
LeaseIndex ==
    /\ \E lease \in Leases :
           dop' = [op |-> "LeaseIndex", lease |-> lease,
                   ret |-> virDomainLeaseIndex(ddef, lease)]
    /\ UNCHANGED <<ddef, dobj>>
    /\ UNCHANGED <<parseVars, registryVars>>

LeaseInsert ==
    /\ Len(ddef.leases) < MaxLeases
    /\ \E lease \in Leases :
           /\ ddef' = virDomainLeaseInsert(ddef, lease)
           /\ dop' = [op |-> "LeaseInsert", lease |-> lease, ret |-> 0]
    /\ UNCHANGED dobj
    /\ UNCHANGED <<parseVars, registryVars>>

\* ret is the lease that is returned, <<>> for NULL
LeaseRemove ==
    /\ \E lease \in Leases :
           /\ ddef' = virDomainLeaseRemove(ddef, lease).def
           /\ dop' = [op |-> "LeaseRemove", lease |-> lease,
                      ret |-> virDomainLeaseRemove(ddef, lease).lease]
    /\ UNCHANGED dobj
    /\ UNCHANGED <<parseVars, registryVars>>

LeasesNext ==
    \/ LeaseIndex
    \/ LeaseInsert
    \/ LeaseRemove

LeasesStart ==
    /\ ParseIdle
    /\ RegistryInit
    /\ LeasesInit

SpecLeases == LeasesStart /\ [][LeasesNext]_vars

(***************************************************************************)
(* Properties of the registry.                                             *)
(***************************************************************************)
\* the keys of the table that have an entry
Registered == {u \in UUIDs : objs[u] # 0}

\* the definition of the object registered under u
RegisteredDef(u) == domains[objs[u]].def[1]

\* C5: after any sequence of Add and Remove calls, no two domains of the
\* registry have the same UUID and no two have the same name.
C5_UniqueUUIDAndName ==
    \A u1, u2 \in Registered :
        u1 # u2 =>
            /\ objs[u1] # objs[u2]
            /\ RegisteredDef(u1).uuid # RegisteredDef(u2).uuid
            /\ RegisteredDef(u1).name # RegisteredDef(u2).name

\* an Add was refused for the name of a registered domain, after a Remove
\* took a domain out of the registry
C5_DuplicateNameRefused ==
    /\ \E t \in Threads : tpc[t] = "idle" /\ tloc[t].ret = "refused_name"
    /\ Registered # {}
    /\ \E o \in Objs : domains[o] # NoObj /\ \A u \in UUIDs : objs[u] # o

\* the object locks thread t owns
Holds(t) == {o \in Objs : lockOwner.obj[o] = t}

\* the owner of the lock thread t is about to take, 0 when the lock is free
\* or t is not about to take a lock
WaitsFor(t) ==
    IF tpc[t] = "lock_doms" THEN lockOwner.doms
    ELSE IF tpc[t] = "search" THEN lockOwner.obj[objs[HashOrder[tloc[t].cur]]]
    ELSE IF tpc[t] \in {"lock_vm", "remove_lock_dom"} THEN lockOwner.obj[tloc[t].vm]
    ELSE 0

\* C6: no registry operation waits for the registry lock while it holds a
\* domain lock; each takes the registry lock first and a domain lock second,
\* Remove having dropped the caller's domain lock; hence the threads that run
\* the operations never deadlock: in no set of threads does every thread wait
\* for a lock owned by a thread of the set.
C6_LockOrder ==
    /\ \A t \in Threads : tpc[t] = "lock_doms" => Holds(t) = {}
    /\ \A t \in Threads :
           tpc[t] \in {"search", "lock_vm", "remove_lock_dom"} =>
               lockOwner.doms = t /\ Holds(t) = {}
    /\ \A S \in SUBSET Threads : S # {} => \E t \in S : WaitsFor(t) \notin S

\* a thread in Remove waits for the registry lock, which is owned by a thread
\* about to lock the very domain that is being removed
C6_RemoveWaitsForRegistry ==
    \E t1, t2 \in Threads :
        /\ tpc[t1] = "lock_doms" /\ tloc[t1].op = "Remove"
        /\ lockOwner.doms = t2
        /\ tpc[t2] = "lock_vm" /\ tloc[t2].vm = tloc[t1].vm

\* C7: AssignDefinition on an active domain stores the new definition in the
\* pending slot and leaves the live definition; on an inactive domain, not
\* live, it replaces the current definition and leaves the pending one; on an
\* inactive domain, live, it installs the new definition as current and keeps
\* the previous current definition as the shadow when there is no shadow yet,
\* and otherwise discards the previous current definition and keeps the shadow.
C7_AssignDefinition ==
    hist # <<>> =>
        /\ domains[hist[1].vm] = hist[1].post
        /\ IF virDomainObjIsActive(hist[1].pre)
           THEN /\ hist[1].post.newDef = <<hist[1].def>>
                /\ hist[1].post.def = hist[1].pre.def
           ELSE IF ~hist[1].live
           THEN /\ hist[1].post.def = <<hist[1].def>>
                /\ hist[1].post.newDef = hist[1].pre.newDef
           ELSE IF hist[1].pre.newDef = <<>>
           THEN /\ hist[1].post.def = <<hist[1].def>>
                /\ hist[1].post.newDef = hist[1].pre.def
           ELSE /\ hist[1].post.def = <<hist[1].def>>
                /\ hist[1].post.newDef = hist[1].pre.newDef
                /\ hist[1].freed = hist[1].pre.def

\* a live assignment to an inactive domain that has a shadow, the shadow, the
\* previous definition and the new one all different
C7_ShadowKept ==
    /\ hist # <<>>
    /\ ~virDomainObjIsActive(hist[1].pre)
    /\ hist[1].live
    /\ hist[1].pre.newDef # <<>>
    /\ hist[1].pre.newDef # hist[1].pre.def
    /\ <<hist[1].def>> # hist[1].pre.def
    /\ <<hist[1].def>> # hist[1].pre.newDef

\* what a refused Add returns
Refused == {"refused_uuid", "refused_name", "refused_active"}

\* thread t returned from the operation with the result ret
Returned(t, ret) == tpc[t] = "idle" /\ tloc[t].ret = ret

\* the step is one of thread t
StepOf(t) == tpc'[t] # tpc[t]

\* C27: an Add that is refused (the UUID registered under another name, the
\* name registered under another UUID, or check-live and the domain active)
\* returns no domain and its thread owns no lock when it has returned; and
\* no step of an Add, but the one that assigns the definition or registers
\* the new object, changes the table or any object, so that the entries and
\* the current and pending definitions are as they were.
C27_RefusedAddChangesNothing ==
    /\ [](\A t \in Threads :
             (tpc[t] = "idle" /\ tloc[t].ret \in Refused) =>
                 /\ tloc[t].held = 0
                 /\ Holds(t) = {}
                 /\ lockOwner.doms # t)
    /\ [][\A t \in Threads :
             (tloc[t].op = "Add" /\ StepOf(t) /\ tloc'[t].ret \notin {"assigned", "added"})
                 => (objs' = objs /\ domains' = domains)]_vars

\* an Add with check-live was refused for an active domain, which has its
\* definitions and its entry
C27_ActiveRefused ==
    \E t \in Threads :
        /\ Returned(t, "refused_active")
        /\ \E u \in Registered : virDomainObjIsActive(domains[objs[u]])

\* the object is allocated and the table has no entry for it
Unregistered(o) == domains[o] # NoObj /\ \A u \in UUIDs : objs[u] # o

\* C28: when Remove returns, the table has no entry for the domain and
\* the thread owns neither the lock of the registry nor a lock of a domain;
\* a domain that has left the table never comes back to it; and a lookup
\* that returns a domain returns one the table has an entry for as it
\* returns.  Hence no lookup returns a domain after its Remove has returned,
\* whatever the threads do in between.
C28_RemovedNotFound ==
    [][/\ \A t \in Threads :
              (tpc[t] = "remove_entry" /\ StepOf(t)) =>
                  /\ \A u \in UUIDs : objs'[u] # tloc[t].vm
                  /\ tpc'[t] = "idle"
                  /\ lockOwner'.doms # t
                  /\ \A o \in Objs : lockOwner'.obj[o] # t
       /\ \A o \in Objs : Unregistered(o) => \A u \in UUIDs : objs'[u] # o
       /\ \A t \in Threads :
              (/\ tloc[t].op \in {"FindByID", "FindByUUID", "FindByName"}
               /\ StepOf(t) /\ tpc'[t] = "idle" /\ tloc'[t].held # 0)
                  => \E u \in UUIDs : objs[u] = tloc'[t].held]_vars

\* both threads have removed the one domain there was: the second had
\* looked it up while the first was between its unlock of the domain and
\* its lock of the registry
C28_BothRemoved ==
    /\ \A t \in Threads : Returned(t, "removed")
    /\ Registered = {}
    /\ \E o \in Objs : Unregistered(o)

(***************************************************************************)
(* Properties of the lease operations.                                     *)
(***************************************************************************)
\* the two lockspaces are both present and equal, or both absent
LockspaceMatches(a, b) ==
    \/ a.lockspace # NULL /\ b.lockspace # NULL /\ a.lockspace = b.lockspace
    \/ a.lockspace = NULL /\ b.lockspace = NULL

\* the positions (from 0) of the leases of the definition that have the
\* key of the lease and a lockspace that matches
LeaseMatches(def, lease) ==
    {i \in 0..(Len(def.leases) - 1) :
        /\ def.leases[i + 1].key = lease.key
        /\ LockspaceMatches(def.leases[i + 1], lease)}

\* C30: LeaseIndex returns the position of the first lease of the
\* definition with the key of the given lease and a matching lockspace
\* (both present and equal, or both absent), and -1 only when there is none.
C30_LeaseIndexFirstMatch ==
    dop.op = "LeaseIndex" =>
        IF LeaseMatches(ddef, dop.lease) = {}
        THEN dop.ret = -1
        ELSE /\ dop.ret \in LeaseMatches(ddef, dop.lease)
             /\ \A i \in LeaseMatches(ddef, dop.lease) : dop.ret <= i

(***************************************************************************)
(* Properties of the operations on a domain object.                        *)
(***************************************************************************)
\* the content of b is the content of a, but for the id
CopyOf(a, b) == [b EXCEPT !.id = a.id] = a

\* C29: GetPersistentDef on an active persistent domain returns the
\* pending definition, which is another object than the live definition:
\* the one there was, and then nothing is copied, or a new object that is
\* a copy of the live definition; on an inactive domain without pending
\* definition it returns the current definition and creates nothing; on a
\* transient domain it creates no pending definition.
C29_PersistentDef ==
    dop.op = "GetPersistentDef" =>
        /\ (DomainIsActive(dop.pre) /\ dop.pre.persistent) =>
               /\ dop.ret # <<>>
               /\ dop.ret = dobj.newDef
               /\ dop.ret[1].obj # dobj.def[1].obj
               /\ dobj.def = dop.pre.def
               /\ IF dop.pre.newDef # <<>>
                  THEN dobj = dop.pre
                  ELSE /\ dop.ret[1].obj > dop.pre.ndefs
                       /\ CopyOf(dop.pre.def[1].val, dop.ret[1].val)
        /\ (~DomainIsActive(dop.pre) /\ dop.pre.newDef = <<>>) =>
               (dop.ret = dop.pre.def /\ dobj = dop.pre)
        /\ ~dop.pre.persistent => dobj = dop.pre

\* C25: when virDomainObjListExport has returned, in array mode or in count
\* mode, its thread owns the lock of no domain: every lock the call took on a
\* domain of the registry is released
C25_ExportReleasesLocks ==
    \A t \in Threads :
        (tpc[t] = "idle" /\ tloc[t].op = "Export") => Holds(t) = {}

\* the name of definition def is that of a domain registered under another
\* UUID
NameTakenByOther(def) ==
    \E u \in UUIDs \ {def.uuid} :
        objs[u] # 0 /\ domains[objs[u]].def[1].name = def.name

\* C26: a turn of the status load never adds to the table a domain whose
\* name is that of a domain already registered under a different UUID; the
\* turn leaves the table and the objects as they were
C26_StatusLoadRefusesTakenName ==
    [][\A t \in Threads, u \in UUIDs :
           (/\ tpc[t] = "load"
            /\ objs[u] = 0
            /\ objs'[u] # 0)
           => ~NameTakenByOther(domains'[objs'[u]].def[1])]_vars
====
